---------------------------- MODULE Spec2Model ----------------------------
(***************************************************************************)
(* Model of wood_rui: the group hierarchy functions of groups.py and the   *)
(* user-string codec of element.py.                                        *)
(*                                                                         *)
(* Python strings are sequences of one-character strings, so that split,   *)
(* join, str() and ast.literal_eval are computed character by character.   *)
(* A Python dict is a function (its items) and a sequence (its keys in     *)
(* insertion order).                                                       *)
(***************************************************************************)
EXTENDS Integers, Sequences, FiniteSets, TLC

(***************************************************************************)
(* Bounds                                                                  *)
(***************************************************************************)
\* number of objects handed to build_universal_group_dict
MaxObjs == 4

\* the largest coordinate, in halves, of a geometry that is assigned again
MaxCoord == 24

\* the number of user strings of one shape that were edited in the document
MaxEdited == 2

(***************************************************************************)
(* Strings                                                                 *)
(***************************************************************************)
\* the characters the model uses, in code point order
CharOrder ==
    << " ", "(", ")", ",", "-", ".", "0", "1", "2", "3", "4", "5", "6", "7",
       "8", "9", "A", "B", "C", "U", "[", "\\", "]", "a", "d", "e", "g", "m",
       "n", "o", "p", "r", "u" >>

CharCodes ==
    [c \in { CharOrder[i] : i \in 1..Len(CharOrder) } |->
        CHOOSE i \in 1..Len(CharOrder) : CharOrder[i] = c]

CharCode(c) == CharCodes[c]

\* Python None; no string, since every character of a string is one symbol
None == << "<None>" >>

\* truth value of `if x:` for x a string or None
Truthy(x) == x # None /\ x # << >>

\* s.strip() == ""
IsBlank(s) == \A i \in 1..Len(s) : s[i] = " "

\* s < t for Python strings (code point order)
RECURSIVE StrLess(_, _)
StrLess(s, t) ==
    IF t = << >> THEN FALSE
    ELSE IF s = << >> THEN TRUE
    ELSE IF Head(s) = Head(t) THEN StrLess(Tail(s), Tail(t))
    ELSE CharCode(Head(s)) < CharCode(Head(t))

\* sorted(S) for a set of strings
RECURSIVE Sorted(_)
Sorted(S) ==
    IF S = {} THEN << >>
    ELSE LET m == CHOOSE x \in S : \A y \in S \ {x} : StrLess(x, y)
         IN  << m >> \o Sorted(S \ {m})

\* s.split(sep) for a one-character separator
RECURSIVE Split(_, _)
Split(s, sep) ==
    IF \A i \in 1..Len(s) : s[i] # sep THEN << s >>
    ELSE LET i == CHOOSE k \in 1..Len(s) :
                      s[k] = sep /\ \A j \in 1..(k - 1) : s[j] # sep
         IN  << SubSeq(s, 1, i - 1) >> \o Split(SubSeq(s, i + 1, Len(s)), sep)

\* sep.join(parts)
RECURSIVE Join(_, _)
Join(sep, parts) ==
    IF parts = << >> THEN << >>
    ELSE IF Len(parts) = 1 THEN parts[1]
    ELSE parts[1] \o sep \o Join(sep, Tail(parts))

Range(s) == { s[i] : i \in 1..Len(s) }

Unnamed == << "(", "u", "n", "n", "a", "m", "e", "d", ")" >>
Ungrouped == << "U", "n", "g", "r", "o", "u", "p", "e", "d" >>
Backslash == "\\"

(***************************************************************************)
(* Inputs of the group functions: what rs.ObjectGroups returns for one     *)
(* object (a list of group names).                                         *)
(***************************************************************************)
TagA == << "A" >>
TagB == << "B" >>
TagC == << "C" >>
TagBA == << "B", "\\", "A" >>
TagCBA == << "C", "\\", "B", "\\", "A" >>
TagCB == << "C", "\\", "B" >>
TagBlank == << " " >>
TagATrail == << "A", "\\" >>

TagLists ==
    { << >>, << TagC >>, << TagA, TagB >>, << TagB, TagA >>, << TagBA, TagC >>,
      << TagCBA >>, << TagCB >>, << TagBlank, TagATrail >> }

VARIABLES
    object_tags,       \* rs.ObjectGroups(obj) of the objects processed so far
    group_dict,        \* build_universal_group_dict: group_dict (items)
    group_keys,        \* build_universal_group_dict: group_dict (key order)
    object_group_map,  \* obj -> its set of group paths, in insertion order
    hash_layout,       \* how the string hashes of this process fall into set slots
    group_object_map,  \* signature key -> list of objects
    shared_dict,       \* compute_shared_elements result
    inferred_parents,  \* infer_group_hierarchy result
    roots,             \* build_inferred_tree result: roots
    tree,              \* build_inferred_tree result: tree
    gpc,               \* position in select_group_tree
    marker,            \* geometry_plane[1].Geometry: the points of the marker polyline
    user_strings,      \* geometry_plane[0].Attributes: the user strings of the shape
    self_axes,         \* Element._axes
    self_neighbours,   \* Element._neighbours
    self_radii,        \* Element._radii
    self_joint_types,  \* Element._joint_types
    ret,               \* what the last property read returned or raised
    feature_keys,      \* the keys of GetUserStrings() that hold "feature", in list order
    self_features,     \* Element._features
    self_thickness,    \* Element._thickness
    self_volumes,      \* Element._volumes
    insertion_value,   \* the value last passed to the insertion setter
    added,             \* the arguments of the add_element call that made the entity
    object_kinds,      \* obj.Geometry of the selected objects
    valid_groups,      \* what select_and_find_valid_groups returned
    layers,            \* RhinoDoc.ActiveDoc.Layers: the layer table
    layer_ret,         \* the last call of ensure_layer_exists and what it returned
    layer_first,       \* what ensure_layer_exists returned for each path the first time
    doc_objects,       \* RhinoDoc.ActiveDoc.Objects: every object ever added
    doc_groups,        \* RhinoDoc.ActiveDoc.Groups: the members of each group
    globals_guid,      \* wood_rui_globals[data_name]["polylines_guid"]
    doc_exit,          \* the last call on the document and how it ended
    doc_calls          \* the number of calls on the document so far

gvars == << object_tags, group_dict, group_keys, object_group_map, hash_layout,
            group_object_map, shared_dict, inferred_parents, roots, tree, gpc >>

evars == << marker, user_strings, self_axes, self_neighbours, self_radii,
            self_joint_types, ret >>

fvars == << feature_keys, self_features, self_thickness, self_volumes,
            insertion_value, added >>

dvars == << object_kinds, valid_groups, layers, layer_ret, layer_first, doc_objects, doc_groups,
            globals_guid, doc_exit, doc_calls >>

vars == << gvars, evars, fvars, dvars >>

Empty == << >>

(***************************************************************************)
(* build_universal_group_dict                                              *)
(***************************************************************************)
\* the local state of the function: d.gd, d.keys (group_dict) and d.ogs
\* (object_group_map[obj], a set kept with its insertion order)

update_group(d, full_name, simple_name, parent) ==
    IF full_name \notin DOMAIN d.gd
    THEN [d EXCEPT !.gd = d.gd @@ (full_name :>
                        [name |-> simple_name, parent |-> parent,
                         children |-> {}, objects |-> {}]),
                   !.keys = Append(d.keys, full_name)]
    ELSE IF Truthy(parent) /\ d.gd[full_name].parent = None
         THEN [d EXCEPT !.gd[full_name].parent = parent]
         ELSE d

\* mutant: the child is never recorded
AddChildDropped(d, parent, full_name) == d

\* group_dict[parent]["children"].add(full_name)
AddChild(d, parent, full_name) ==
    [d EXCEPT !.gd[parent].children = @ \cup {full_name}]

\* mutant: the member set is assigned instead of extended
AddObjectAssigned(d, full_name, obj) ==
    [d EXCEPT !.gd[full_name].objects = {obj}]

\* group_dict[full_name]["objects"].add(obj)
AddObject(d, full_name, obj) ==
    [d EXCEPT !.gd[full_name].objects = @ \cup {obj}]

\* mutant: the set of the object is replaced by the one path
AddGroupOfObjectReplaced(d, full_name) == [d EXCEPT !.ogs = << full_name >>]

\* object_group_map[obj].add(full_name)
AddGroupOfObject(d, full_name) ==
    IF full_name \in Range(d.ogs) THEN d
    ELSE [d EXCEPT !.ogs = Append(d.ogs, full_name)]

\* p if p.strip() != "" else "(unnamed)"
PartName(p) == IF ~IsBlank(p) THEN p ELSE Unnamed

\* the parts of one group name
Parts(grp) ==
    LET grp_name == IF ~IsBlank(grp) THEN grp ELSE Unnamed
        raw == Split(grp_name, Backslash)
    IN  [i \in 1..Len(raw) |-> PartName(raw[i])]

\* the loop over the parts of one group name
RECURSIVE ProcessParts(_, _, _, _, _)
ProcessParts(d, obj, parts, full_chain, parent) ==
    IF parts = << >> THEN d
    ELSE LET part == Head(parts)
             chain == Append(full_chain, part)
             full_name == IF full_chain # << >>
                          THEN Join(<< Backslash >>, chain)
                          ELSE part
             d1 == update_group(d, full_name, part, parent)
             d2 == IF Truthy(parent) THEN AddChild(d1, parent, full_name) ELSE d1
             d3 == AddObject(d2, full_name, obj)
             d4 == AddGroupOfObject(d3, full_name)
         IN  ProcessParts(d4, obj, Tail(parts), chain, full_name)

\* the loop over the group names of one object
RECURSIVE ProcessGroups(_, _, _)
ProcessGroups(d, obj, groups) ==
    IF groups = << >> THEN d
    ELSE ProcessGroups(ProcessParts(d, obj, Parts(Head(groups)), << >>, None),
                       obj, Tail(groups))

\* mutant: the object is not added to the members of "Ungrouped"
ProcessUngroupedNoMember(d, obj) ==
    AddGroupOfObject(update_group(d, Ungrouped, Ungrouped, None), Ungrouped)

\* an object without groups
ProcessUngrouped(d, obj) ==
    AddGroupOfObject(
        AddObject(update_group(d, Ungrouped, Ungrouped, None), Ungrouped, obj),
        Ungrouped)

\* one iteration of `for obj in selected_objects`
ProcessObjectStep(d, obj, groups) ==
    IF groups # << >> THEN ProcessGroups(d, obj, groups)
    ELSE ProcessUngrouped(d, obj)

\* the order in which iterating the set yields its elements: by slot, which is
\* the order of the hashes when no two share a slot and the insertion order
\* when all collide
IterationOrder(layout, ogs) ==
    IF layout = "by_name" THEN Sorted(Range(ogs)) ELSE ogs

\* ",".join(value)
SignatureKey(layout, ogs) == Join(<< "," >>, IterationOrder(layout, ogs))

\* the two loops that fill group_object_map
BuildGroupObjectMap(layout, ogm) ==
    LET keys == { SignatureKey(layout, ogm[o]) : o \in DOMAIN ogm }
    IN  [k \in keys |->
            SelectSeq([i \in 1..Len(ogm) |-> i],
                      LAMBDA o : SignatureKey(layout, ogm[o]) = k)]

(***************************************************************************)
(* compute_shared_elements                                                 *)
(***************************************************************************)
\* mutant: itertools.permutations(sorted_groups, 2)
Permutations2(s) ==
    { << s[p[1]], s[p[2]] >> :
        p \in { q \in (1..Len(s)) \X (1..Len(s)) : q[1] # q[2] } }

\* itertools.combinations(sorted_groups, 2)
Combinations2(s) ==
    { << s[p[1]], s[p[2]] >> :
        p \in { q \in (1..Len(s)) \X (1..Len(s)) : q[1] < q[2] } }

ObjectCombos(ogm, obj) ==
    IF Cardinality(Range(ogm[obj])) > 1
    THEN Combinations2(Sorted(Range(ogm[obj])))
    ELSE {}

compute_shared_elements(ogm) ==
    LET combos == UNION { ObjectCombos(ogm, o) : o \in DOMAIN ogm }
    IN  [c \in combos |-> { o \in DOMAIN ogm : c \in ObjectCombos(ogm, o) }]

(***************************************************************************)
(* infer_group_hierarchy and build_inferred_tree                           *)
(***************************************************************************)
\* mutant: without `objs != other_objs`
IsCandidateNotStrict(objs, other_objs) == objs \subseteq other_objs

\* objs.issubset(other_objs) and objs != other_objs
IsCandidate(objs, other_objs) == objs \subseteq other_objs /\ objs # other_objs

\* the candidates list of one group, in the order of the dictionary keys
Candidates(gd, keys, group) ==
    LET others == SelectSeq(keys, LAMBDA other :
                      other # group /\ IsCandidate(gd[group].objects, gd[other].objects))
    IN  [i \in 1..Len(others) |->
            << others[i],
               Cardinality(gd[others[i]].objects) - Cardinality(gd[group].objects) >>]

\* mutant: max instead of min
MaxByDiff(candidates) ==
    LET i == CHOOSE k \in 1..Len(candidates) :
                 /\ \A j \in 1..Len(candidates) : candidates[k][2] >= candidates[j][2]
                 /\ \A j \in 1..(k - 1) : candidates[j][2] < candidates[k][2]
    IN  candidates[i]

\* mutant: the last of the least
MinByDiffLast(candidates) ==
    LET i == CHOOSE k \in 1..Len(candidates) :
                 /\ \A j \in 1..Len(candidates) : candidates[k][2] <= candidates[j][2]
                 /\ \A j \in (k + 1)..Len(candidates) : candidates[j][2] > candidates[k][2]
    IN  candidates[i]

\* min(candidates, key=lambda x: x[1]): the first of the least
MinByDiff(candidates) ==
    LET i == CHOOSE k \in 1..Len(candidates) :
                 /\ \A j \in 1..Len(candidates) : candidates[k][2] <= candidates[j][2]
                 /\ \A j \in 1..(k - 1) : candidates[j][2] > candidates[k][2]
    IN  candidates[i]

infer_group_hierarchy(gd, keys) ==
    [group \in DOMAIN gd |->
        LET candidates == Candidates(gd, keys, group)
        IN  IF candidates # << >> THEN MinByDiff(candidates)[1] ELSE None]

\* `if parent:` in build_inferred_tree
HasParent(parent) == Truthy(parent)

\* mutant: every group is appended to roots
build_roots_all(parents, keys) == keys

\* build_inferred_tree: roots
build_roots(parents, keys) ==
    SelectSeq(keys, LAMBDA g : ~HasParent(parents[g]))

\* build_inferred_tree: tree
build_tree(parents, keys) ==
    [group \in DOMAIN parents |->
        [children |-> SelectSeq(keys, LAMBDA g :
                          HasParent(parents[g]) /\ parents[g] = group)]]

(***************************************************************************)
(* Actions of the group pipeline (select_group_tree)                       *)
(***************************************************************************)
GroupInit ==
    /\ object_tags = << >>
    /\ group_dict = Empty
    /\ group_keys = << >>
    /\ object_group_map = << >>
    /\ hash_layout = "unknown"
    /\ group_object_map = Empty
    /\ shared_dict = Empty
    /\ inferred_parents = Empty
    /\ roots = << >>
    /\ tree = Empty
    /\ gpc = "loop"

\* build_universal_group_dict: the body of the loop over the objects
ProcessObject ==
    /\ gpc = "loop"
    /\ Len(object_tags) < MaxObjs
    /\ \E groups \in TagLists :
          LET obj == Len(object_tags) + 1
              d == ProcessObjectStep(
                       [gd |-> group_dict, keys |-> group_keys, ogs |-> << >>],
                       obj, groups)
          IN  /\ object_tags' = Append(object_tags, groups)
              /\ group_dict' = d.gd
              /\ group_keys' = d.keys
              /\ object_group_map' = Append(object_group_map, d.ogs)
    /\ UNCHANGED << hash_layout, group_object_map, shared_dict, inferred_parents,
                    roots, tree, gpc >>
    /\ UNCHANGED << evars, fvars, dvars >>

\* build_universal_group_dict: after the loop, up to the return
ReturnGroupDict ==
    /\ gpc = "loop"
    /\ \E layout \in {"by_name", "by_insertion"} :
          /\ hash_layout' = layout
          /\ group_object_map' = BuildGroupObjectMap(layout, object_group_map)
    /\ gpc' = "built"
    /\ UNCHANGED << object_tags, group_dict, group_keys, object_group_map,
                    shared_dict, inferred_parents, roots, tree >>
    /\ UNCHANGED << evars, fvars, dvars >>

\* select_group_tree after build_universal_group_dict returned: the calls of
\* compute_shared_elements, infer_group_hierarchy and build_inferred_tree
SelectGroupTree ==
    /\ gpc = "built"
    /\ shared_dict' = compute_shared_elements(object_group_map)
    /\ LET parents == infer_group_hierarchy(group_dict, group_keys)
       IN  /\ inferred_parents' = parents
           /\ roots' = build_roots(parents, group_keys)
           /\ tree' = build_tree(parents, group_keys)
    /\ gpc' = "done"
    /\ UNCHANGED << object_tags, group_dict, group_keys, object_group_map,
                    hash_layout, group_object_map >>
    /\ UNCHANGED << evars, fvars, dvars >>

(***************************************************************************)
(* select_and_find_valid_groups                                            *)
(***************************************************************************)
\* the geometry of a selected object: a polyline curve of 3 or of 4 points,
\* or something that is no polyline curve (a mesh, a brep)
IsPolylineCurve(kind) == kind \in { "polyline3", "polyline4" }
PointCount(kind) == IF kind = "polyline3" THEN 3 ELSE 4

\* the geometries of the objects of a selection, given as a pattern that is
\* repeated over the selection
KindPatterns ==
    { << "polyline3", "other" >>, << "other", "polyline4", "polyline3" >>,
      << "polyline3", "polyline3", "other", "other" >> }

KindAt(pattern, obj) == pattern[((obj - 1) % Len(pattern)) + 1]

\* the return value: nothing yet, None, or a list of pairs (other, polyline)
NotCalled == [ret |-> "not called", pairs |-> << >>]
ReturnedNone == [ret |-> "None", pairs |-> << >>]
ReturnedPairs(pairs) == [ret |-> "list", pairs |-> pairs]

\* the loop `for obj in group_objects`: polyline_obj and other_obj, 0 for None
RECURSIVE IdentifyObjects(_, _, _)
IdentifyObjects(kinds, group_objects, found) ==
    IF group_objects = << >> THEN found
    ELSE LET obj == Head(group_objects)
         IN  IdentifyObjects(kinds, Tail(group_objects),
                 IF IsPolylineCurve(kinds[obj])
                 THEN [found EXCEPT !.polyline_obj = obj]
                 ELSE [found EXCEPT !.other_obj = obj])

\* the body of the loop over group_object_map.items(): the pairs appended
ValidGroupOf(kinds, group_objects) ==
    IF Len(group_objects) # 2 THEN << >>
    ELSE LET found == IdentifyObjects(kinds, group_objects,
                                      [polyline_obj |-> 0, other_obj |-> 0])
         IN  IF found.polyline_obj # 0 /\ found.other_obj # 0
                    /\ PointCount(kinds[found.polyline_obj]) = 3
             THEN << << found.other_obj, found.polyline_obj >> >>
             ELSE << >>

\* the keys of group_object_map in the order of the dictionary: a key is
\* entered when the first object with this key is met
GroupObjectKeys(layout, ogm, gom) ==
    LET firsts == SelectSeq([i \in 1..Len(ogm) |-> i],
                            LAMBDA o : gom[SignatureKey(layout, ogm[o])][1] = o)
    IN  [i \in 1..Len(firsts) |-> SignatureKey(layout, ogm[firsts[i]])]

RECURSIVE FindValidGroups(_, _, _, _)
FindValidGroups(kinds, gom, keys, valid) ==
    IF keys = << >> THEN valid
    ELSE FindValidGroups(kinds, gom, Tail(keys),
                         valid \o ValidGroupOf(kinds, gom[Head(keys)]))

select_and_find_valid_groups(kinds, layout, ogm, gom) ==
    IF Len(kinds) = 0 THEN ReturnedNone
    ELSE ReturnedPairs(FindValidGroups(kinds, gom,
                                       GroupObjectKeys(layout, ogm, gom), << >>))

\* select_and_find_valid_groups after build_universal_group_dict returned
SelectAndFindValidGroups ==
    /\ gpc = "built"
    /\ \E pattern \in KindPatterns :
          LET kinds == [o \in 1..Len(object_tags) |-> KindAt(pattern, o)]
          IN  /\ object_kinds' = kinds
              /\ valid_groups' = select_and_find_valid_groups(
                                     kinds, hash_layout, object_group_map,
                                     group_object_map)
    /\ gpc' = "found"
    /\ UNCHANGED << object_tags, group_dict, group_keys, object_group_map,
                    hash_layout, group_object_map, shared_dict, inferred_parents,
                    roots, tree >>
    /\ UNCHANGED << layers, layer_ret, layer_first, doc_objects, doc_groups,
                    globals_guid, doc_exit, doc_calls >>
    /\ UNCHANGED << evars, fvars >>

GroupNext ==
    \/ ProcessObject
    \/ ReturnGroupDict
    \/ SelectGroupTree
    \/ SelectAndFindValidGroups


(***************************************************************************)
(* Python values stored in user strings                                    *)
(*                                                                         *)
(* An int n is << "int", n >>, a float is << "float", k >> with k the      *)
(* number of halves (2.5 is k = 5), a list is << "list", items >>.  A      *)
(* coordinate of a Point3d or Vector3d is a double, kept as its number of  *)
(* halves.                                                                 *)
(***************************************************************************)
PyInt(n) == << "int", n >>
PyFloat(k) == << "float", k >>
PyList(items) == << "list", items >>

Digits == << "0", "1", "2", "3", "4", "5", "6", "7", "8", "9" >>
DigitSet == { "0", "1", "2", "3", "4", "5", "6", "7", "8", "9" }
IsDigit(c) == c \in DigitSet
DigitVal(c) == (CHOOSE i \in 1..10 : Digits[i] = c) - 1

\* str(n) for an int n >= 0
RECURSIVE NatStr(_)
NatStr(n) ==
    IF n < 10 THEN << Digits[n + 1] >>
    ELSE NatStr(n \div 10) \o << Digits[(n % 10) + 1] >>

\* str(n) for an int
IntStr(n) == IF n < 0 THEN << "-" >> \o NatStr(-n) ELSE NatStr(n)

\* str(x) for a float of k halves
FloatStr(k) ==
    LET a == IF k < 0 THEN -k ELSE k
        body == NatStr(a \div 2) \o << "." >> \o (IF a % 2 = 0 THEN << "0" >> ELSE << "5" >>)
    IN  IF k < 0 THEN << "-" >> \o body ELSE body

\* str(value) for a (nested) list of numbers
RECURSIVE PyStr(_)
PyStr(v) ==
    IF v[1] = "int" THEN IntStr(v[2])
    ELSE IF v[1] = "float" THEN FloatStr(v[2])
    ELSE << "[" >>
         \o Join(<< ",", " " >>, [i \in 1..Len(v[2]) |-> PyStr(v[2][i])])
         \o << "]" >>

(***************************************************************************)
(* ast.literal_eval, for the literals of numbers and nested lists          *)
(***************************************************************************)
Malformed == [ok |-> FALSE, val |-> << >>, pos |-> 0]

RECURSIVE SkipSpaces(_, _)
SkipSpaces(s, i) ==
    IF i <= Len(s) /\ s[i] = " " THEN SkipSpaces(s, i + 1) ELSE i

\* the first position from i on that holds no digit
RECURSIVE ScanDigits(_, _)
ScanDigits(s, i) ==
    IF i <= Len(s) /\ IsDigit(s[i]) THEN ScanDigits(s, i + 1) ELSE i

\* the number written by the digits s[i..j-1]
RECURSIVE NatOf(_, _, _)
NatOf(s, i, j) ==
    IF j <= i THEN 0
    ELSE 10 * NatOf(s, i, j - 1) + DigitVal(s[j - 1])

\* the halves written by the fraction digits s[i..j-1]: 0, 1, or -1 when the
\* fraction is no number of halves
FractionHalves(s, i, j) ==
    IF \A k \in i..(j - 1) : s[k] = "0" THEN 0
    ELSE IF s[i] = "5" /\ \A k \in (i + 1)..(j - 1) : s[k] = "0" THEN 1
    ELSE -1

ParseNumber(s, i) ==
    LET neg == i <= Len(s) /\ s[i] = "-"
        st == IF neg THEN i + 1 ELSE i
        e == ScanDigits(s, st)
        sign == IF neg THEN -1 ELSE 1
    IN  IF e = st THEN Malformed
        ELSE IF e <= Len(s) /\ s[e] = "."
             THEN LET fe == ScanDigits(s, e + 1)
                      h == FractionHalves(s, e + 1, fe)
                  IN  IF h < 0 THEN Malformed
                      ELSE [ok |-> TRUE,
                            val |-> PyFloat(sign * (2 * NatOf(s, st, e) + h)),
                            pos |-> fe]
             ELSE [ok |-> TRUE, val |-> PyInt(sign * NatOf(s, st, e)), pos |-> e]

RECURSIVE ParseValue(_, _)
RECURSIVE ParseItems(_, _, _)

\* a value from position i on
ParseValue(s, i) ==
    LET j == SkipSpaces(s, i)
    IN  IF j > Len(s) THEN Malformed
        ELSE IF s[j] = "[" THEN ParseItems(s, SkipSpaces(s, j + 1), << >>)
        ELSE IF IsDigit(s[j]) \/ s[j] = "-" THEN ParseNumber(s, j)
        ELSE Malformed

\* the items of a list from position i on, after the items acc
ParseItems(s, i, acc) ==
    IF i > Len(s) THEN Malformed
    ELSE IF s[i] = "]" THEN [ok |-> TRUE, val |-> PyList(acc), pos |-> i + 1]
    ELSE LET r == ParseValue(s, i)
             j == SkipSpaces(s, r.pos)
         IN  IF ~r.ok \/ j > Len(s) THEN Malformed
             ELSE IF s[j] = ","
                  THEN ParseItems(s, SkipSpaces(s, j + 1), Append(acc, r.val))
             ELSE IF s[j] = "]"
                  THEN [ok |-> TRUE, val |-> PyList(Append(acc, r.val)), pos |-> j + 1]
             ELSE Malformed

\* what a property read gives: a value, or the exception it raises
Returned(v) == [ok |-> TRUE, val |-> v, err |-> "none"]
Raised(e) == [ok |-> FALSE, val |-> << >>, err |-> e]

\* ast.literal_eval(value); value is None when the key is absent
literal_eval(value) ==
    IF value = None THEN Raised("ValueError")
    ELSE LET r == ParseValue(value, 1)
         IN  IF r.ok /\ SkipSpaces(value, r.pos) > Len(value)
             THEN Returned(r.val)
             ELSE Raised("SyntaxError")

(***************************************************************************)
(* Geometry: points and vectors are triples of doubles (in halves); the    *)
(* axes of a plane are unit vectors along the coordinate axes, so that the *)
(* arithmetic of a plane-to-plane transformation is exact.                 *)
(***************************************************************************)
VecSub(p, q) == << p[1] - q[1], p[2] - q[2], p[3] - q[3] >>
VecAdd(p, q) == << p[1] + q[1], p[2] + q[2], p[3] + q[3] >>
VecScale(c, v) == << c * v[1], c * v[2], c * v[3] >>
Dot(u, v) == u[1] * v[1] + u[2] * v[2] + u[3] * v[3]
Cross(u, v) ==
    << u[2] * v[3] - u[3] * v[2], u[3] * v[1] - u[1] * v[3],
       u[1] * v[2] - u[2] * v[1] >>
Sgn(x) == IF x > 0 THEN 1 ELSE IF x < 0 THEN -1 ELSE 0

\* a vector along one coordinate axis
IsAxisAligned(v) == Cardinality({ i \in 1..3 : v[i] # 0 }) = 1

\* v / |v| for a vector along one coordinate axis
Unitize(v) == << Sgn(v[1]), Sgn(v[2]), Sgn(v[3]) >>

Origin3d == << 0, 0, 0 >>
PlaneUnset == [valid |-> FALSE, origin |-> Origin3d, xaxis |-> Origin3d,
               yaxis |-> Origin3d, zaxis |-> Origin3d]
WorldXY == [valid |-> TRUE, origin |-> Origin3d, xaxis |-> << 1, 0, 0 >>,
            yaxis |-> << 0, 1, 0 >>, zaxis |-> << 0, 0, 1 >>]

\* Rhino.Geometry.Plane(origin, x_axis, y_axis): x unitized, y made
\* perpendicular to x and unitized, z their cross product
PlaneFromFrame(origin, x_axis, y_axis) ==
    LET xu == Unitize(x_axis)
        yp == VecSub(y_axis, VecScale(Dot(y_axis, xu), xu))
        yu == Unitize(yp)
    IN  IF IsAxisAligned(x_axis) /\ IsAxisAligned(yp)
        THEN [valid |-> TRUE, origin |-> origin, xaxis |-> xu, yaxis |-> yu,
              zaxis |-> Cross(xu, yu)]
        ELSE PlaneUnset

\* Element.plane
ElementPlane(m) ==
    IF Len(m) = 3
    THEN PlaneFromFrame(m[2], VecSub(m[1], m[2]), VecSub(m[3], m[2]))
    ELSE PlaneUnset

\* Transform.PlaneToPlane(p0, p1) applied to the point q: the coordinates of
\* q in p0 are its coordinates in p1
PlaneToPlane(p0, p1, q) ==
    LET d == VecSub(q, p0.origin)
    IN  VecAdd(p1.origin,
               VecAdd(VecScale(Dot(d, p0.xaxis), p1.xaxis),
                      VecAdd(VecScale(Dot(d, p0.yaxis), p1.yaxis),
                             VecScale(Dot(d, p0.zaxis), p1.zaxis))))

\* Element.transformation applied to a point
transformation(m, q) == PlaneToPlane(WorldXY, ElementPlane(m), q)

\* mutant: the marker's plane taken for the world plane
transformation_inverse_identity(m, q) == q

\* Element.transformation_inverse applied to a point
transformation_inverse(m, q) == PlaneToPlane(ElementPlane(m), WorldXY, q)

\* polyline.Transform(self.transformation)
TransformPolyline(m, polyline) ==
    [i \in 1..Len(polyline) |-> transformation(m, polyline[i])]

\* polyline.Transform(self.transformation_inverse)
TransformPolylineInverse(m, polyline) ==
    [i \in 1..Len(polyline) |-> transformation_inverse(m, polyline[i])]

(***************************************************************************)
(* The user strings of the shape object                                    *)
(***************************************************************************)
\* the keys of the user strings, as the strings they are
KeyName == << "n", "a", "m", "e" >>
KeyIndex == << "i", "n", "d", "e", "x" >>
KeyNeighbours ==
    << "n", "e", "i", "g", "h", "b", "o", "u", "r", "s" >>
KeyPairPolyline ==
    << "p", "a", "i", "r", "_", "p", "o", "l", "y", "l", "i", "n", "e" >>
KeyPairPolylineMerged ==
    << "p", "a", "i", "r", "_", "p", "o", "l", "y", "l", "i", "n", "e" >>
    \o << "_", "m", "e", "r", "g", "e", "d" >>
KeyAxes == << "a", "x", "e", "s" >>
KeyRadii == << "r", "a", "d", "i", "i" >>
KeyThickness ==
    << "t", "h", "i", "c", "k", "n", "e", "s", "s" >>
KeyInsertion ==
    << "i", "n", "s", "e", "r", "t", "i", "o", "n" >>
KeyJointTypes ==
    << "j", "o", "i", "n", "t", "_", "t", "y", "p", "e", "s" >>

\* Attributes.GetUserString(key): None for a key that is not set
GetUserString(us, key) == IF key \in DOMAIN us THEN us[key] ELSE None

\* Attributes.SetUserString(key, value) followed by CommitChanges()
SetUserString(us, key, value) ==
    [k \in DOMAIN us \cup {key} |-> IF k = key THEN value ELSE us[k]]

IsNumber(v) == v[1] = "int" \/ v[1] = "float"
IsList(v) == v[1] = "list"

\* the double of a Python number, in halves
ToDouble(v) == IF v[1] = "float" THEN v[2] ELSE 2 * v[2]

\* the loop `for i in range(0, len(l), 3)` that builds the points of a
\* polyline from the items l of a flat list
RECURSIVE PointsFromItems(_, _, _)
PointsFromItems(l, i, acc) ==
    IF i > Len(l) THEN Returned(acc)
    ELSE IF i + 2 > Len(l) THEN Raised("IndexError")
    ELSE IF ~(IsNumber(l[i]) /\ IsNumber(l[i + 1]) /\ IsNumber(l[i + 2]))
         THEN Raised("TypeError")
    ELSE PointsFromItems(l, i + 3,
             Append(acc, << ToDouble(l[i]), ToDouble(l[i + 1]), ToDouble(l[i + 2]) >>))

\* the polyline of one flat list, moved by the element's transformation
PolylineFromList(m, l) ==
    IF ~IsList(l) THEN Raised("TypeError")
    ELSE LET pts == PointsFromItems(l[2], 1, << >>)
         IN  IF pts.ok THEN Returned(TransformPolyline(m, pts.val))
             ELSE pts

\* the loop `for l in list` over flat lists: the polylines, or the first
\* exception
RECURSIVE PolylinesFromLists(_, _, _)
PolylinesFromLists(m, lists, acc) ==
    IF lists = << >> THEN Returned(acc)
    ELSE LET p == PolylineFromList(m, Head(lists))
         IN  IF p.ok THEN PolylinesFromLists(m, Tail(lists), Append(acc, p.val))
             ELSE p

\* the coordinates list of one polyline: [x, y, z, x, y, z, ...]
RECURSIVE Coordinates(_)
Coordinates(polyline) ==
    IF polyline = << >> THEN << >>
    ELSE << PyFloat(Head(polyline)[1]), PyFloat(Head(polyline)[2]),
            PyFloat(Head(polyline)[3]) >> \o Coordinates(Tail(polyline))

\* Element.axes (getter)
axes_get(us, m) ==
    LET list == literal_eval(GetUserString(us, KeyAxes))
    IN  IF ~list.ok THEN list
        ELSE IF ~IsList(list.val) THEN Raised("TypeError")
        ELSE PolylinesFromLists(m, list.val[2], << >>)

\* Element.axes (setter): the string written to the user string "axes"
axes_str(m, value) ==
    PyStr(PyList([i \in 1..Len(value) |->
        PyList(Coordinates(TransformPolylineInverse(m, value[i])))]))

\* Element.pair_polyline (getter): the loop over list3
RECURSIVE PairsFromLists(_, _, _)
PairsFromLists(m, list3, acc) ==
    IF list3 = << >> THEN Returned(acc)
    ELSE IF ~IsList(Head(list3)) THEN Raised("TypeError")
    ELSE LET p == PolylinesFromLists(m, Head(list3)[2], << >>)
         IN  IF p.ok THEN PairsFromLists(m, Tail(list3), Append(acc, p.val))
             ELSE p

\* Element.pair_polyline (getter)
pair_polyline_get(us, m) ==
    LET list3 == literal_eval(GetUserString(us, KeyPairPolyline))
    IN  IF ~list3.ok THEN list3
        ELSE IF ~IsList(list3.val) THEN Raised("TypeError")
        ELSE PairsFromLists(m, list3.val[2], << >>)

\* Element.neighbours (getter)
neighbours_get(us) == literal_eval(GetUserString(us, KeyNeighbours))

\* Element.radii (getter)
radii_get(us) == literal_eval(GetUserString(us, KeyRadii))

Dash == << "-" >>

\* Element.joint_types (getter)
joint_types_get(us, m) ==
    LET value == GetUserString(us, KeyJointTypes)
    IN  IF value = Dash \/ value = None
        THEN LET pairs == pair_polyline_get(us, m)
             IN  IF pairs.ok
                 THEN Returned(PyList([i \in 1..Len(pairs.val) |-> PyList(<< >>)]))
                 ELSE pairs
        ELSE literal_eval(value)

\* mutant: an empty value is written as "-", as add_element writes it
value_str_or_dash(value) ==
    IF IsList(value) /\ value[2] = << >> THEN Dash ELSE PyStr(value)

\* str(value), as the setters of neighbours, radii and joint_types write it
value_str(value) == PyStr(value)

(***************************************************************************)
(* Inputs of the element properties                                        *)
(***************************************************************************)
\* marker polylines: the world frame, a frame moved and turned, a frame whose
\* third point is not at a right angle
MarkerWorld == << << 2, 0, 0 >>, << 0, 0, 0 >>, << 0, 2, 0 >> >>
MarkerTurned == << << 2, 8, 6 >>, << 2, 4, 6 >>, << 2, 4, 10 >> >>
MarkerSkew == << << -3, 0, -3 >>, << 1, 0, -3 >>, << 4, 0, -1 >> >>
MarkerPool == { MarkerWorld, MarkerTurned, MarkerSkew }

PointA == << 0, 0, 0 >>
PointB == << 0, 0, 10 >>
PointC == << 1, -4, 3 >>

\* lists of polylines
AxesPool ==
    { << >>, << << PointA, PointB >> >>,
      << << PointA, PointB >>, << PointC, PointB, PointA >> >>,
      << << >>, << PointC >> >> }

\* (nested) lists of ints and floats
ValuePool ==
    { PyList(<< >>),
      PyList(<< PyInt(1), PyInt(-2), PyInt(10) >>),
      PyList(<< PyList(<< PyFloat(1) >>), PyList(<< PyFloat(4), PyFloat(3) >>) >>),
      PyList(<< PyList(<< PyInt(3), PyFloat(-25) >>), PyList(<< >>), PyInt(0) >>) }

(***************************************************************************)
(* Actions of one Element                                                  *)
(***************************************************************************)
\* an attribute of the Element instance (self._axes, ...): not there before
\* the first assignment
NoAttr == [set |-> FALSE, val |-> << >>]
Attr(v) == [set |-> TRUE, val |-> v]

\* the outcome of the last call: of a property read its value or exception,
\* of any other call nothing
Result(op, r) == [op |-> op, ok |-> r.ok, val |-> r.val, err |-> r.err]
NoResult == Result("none", Returned(<< >>))

ElementInit ==
    /\ marker \in MarkerPool
    /\ user_strings = Empty
    /\ self_axes = NoAttr
    /\ self_neighbours = NoAttr
    /\ self_radii = NoAttr
    /\ self_joint_types = NoAttr
    /\ ret = NoResult
    /\ feature_keys = << >>
    /\ self_features = NoAttr
    /\ self_thickness = NoAttr
    /\ self_volumes = NoAttr
    /\ insertion_value = NoAttr
    /\ added = NoAttr

\* Element.axes = value
SetAxes ==
    /\ \E value \in AxesPool :
          /\ self_axes' = Attr(value)
          /\ user_strings' = SetUserString(user_strings, KeyAxes, axes_str(marker, value))
    /\ ret' = NoResult
    /\ UNCHANGED << marker, self_neighbours, self_radii, self_joint_types >>
    /\ UNCHANGED << gvars, fvars, dvars >>

\* Element.axes
GetAxes ==
    /\ ret' = Result("axes", axes_get(user_strings, marker))
    /\ UNCHANGED << marker, user_strings, self_axes, self_neighbours, self_radii,
                    self_joint_types >>
    /\ UNCHANGED << gvars, fvars, dvars >>

\* Element.neighbours = value
SetNeighbours ==
    /\ \E value \in ValuePool :
          /\ self_neighbours' = Attr(value)
          /\ user_strings' = SetUserString(user_strings, KeyNeighbours, value_str(value))
    /\ ret' = NoResult
    /\ UNCHANGED << marker, self_axes, self_radii, self_joint_types >>
    /\ UNCHANGED << gvars, fvars, dvars >>

\* Element.neighbours
GetNeighbours ==
    /\ ret' = Result("neighbours", neighbours_get(user_strings))
    /\ UNCHANGED << marker, user_strings, self_axes, self_neighbours, self_radii,
                    self_joint_types >>
    /\ UNCHANGED << gvars, fvars, dvars >>

\* Element.radii = value
SetRadii ==
    /\ \E value \in ValuePool :
          /\ self_radii' = Attr(value)
          /\ user_strings' = SetUserString(user_strings, KeyRadii, value_str(value))
    /\ ret' = NoResult
    /\ UNCHANGED << marker, self_axes, self_neighbours, self_joint_types >>
    /\ UNCHANGED << gvars, fvars, dvars >>

\* Element.radii
GetRadii ==
    /\ ret' = Result("radii", radii_get(user_strings))
    /\ UNCHANGED << marker, user_strings, self_axes, self_neighbours, self_radii,
                    self_joint_types >>
    /\ UNCHANGED << gvars, fvars, dvars >>

\* Element.joint_types = value
SetJointTypes ==
    /\ \E value \in ValuePool :
          /\ self_joint_types' = Attr(value)
          /\ user_strings' = SetUserString(user_strings, KeyJointTypes, value_str(value))
    /\ ret' = NoResult
    /\ UNCHANGED << marker, self_axes, self_neighbours, self_radii >>
    /\ UNCHANGED << gvars, fvars, dvars >>

\* Element.joint_types
GetJointTypes ==
    /\ ret' = Result("joint_types", joint_types_get(user_strings, marker))
    /\ UNCHANGED << marker, user_strings, self_axes, self_neighbours, self_radii,
                    self_joint_types >>
    /\ UNCHANGED << gvars, fvars, dvars >>

ElementNext ==
    \/ SetAxes
    \/ GetAxes
    \/ SetNeighbours
    \/ GetNeighbours
    \/ SetRadii
    \/ GetRadii
    \/ SetJointTypes
    \/ GetJointTypes

\* no element is in use
ElementIdle ==
    /\ marker = MarkerWorld
    /\ user_strings = Empty
    /\ self_axes = NoAttr
    /\ self_neighbours = NoAttr
    /\ self_radii = NoAttr
    /\ self_joint_types = NoAttr
    /\ ret = NoResult
    /\ feature_keys = << >>
    /\ self_features = NoAttr
    /\ self_thickness = NoAttr
    /\ self_volumes = NoAttr
    /\ insertion_value = NoAttr
    /\ added = NoAttr

(***************************************************************************)
(* The features of an Element: one user string "feature_<i>" per geometry. *)
(* A feature geometry is kept as the list of its vertices.                 *)
(***************************************************************************)
FeatureWord == << "f", "e", "a", "t", "u", "r", "e" >>

\* "feature" in key
ContainsFeature(key) ==
    \E i \in 1..Len(key) :
        i + 6 <= Len(key) /\ SubSeq(key, i, i + 6) = FeatureWord

\* mutant: the keys numbered from one
FeatureKeyFromOne(feature_count, idx) ==
    FeatureWord \o << "_" >> \o NatStr(feature_count + idx + 1)

\* f"feature_{feature_count + idx}"
FeatureKey(feature_count, idx) ==
    FeatureWord \o << "_" >> \o NatStr(feature_count + idx)

\* geometry.ToJSON(opts): the text of the geometry, here its coordinates
\* between braces
ToJSON(geometry) == << "{" >> \o PyStr(PyList(Coordinates(geometry))) \o << "}" >>

\* GeometryBase.FromJSON(value)
FromJSON(value) ==
    LET inner == literal_eval(SubSeq(value, 2, Len(value) - 1))
    IN  PointsFromItems(inner.val[2], 1, << >>).val

\* Element.features_count: the keys of GetUserStrings() that hold "feature"
features_count(keys) ==
    Cardinality({ i \in 1..Len(keys) : ContainsFeature(keys[i]) })

\* Element.features (getter): the geometries in the order of GetUserStrings()
features_get(us, keys, m) ==
    LET fk == SelectSeq(keys, ContainsFeature)
    IN  Returned([i \in 1..Len(fk) |-> TransformPolyline(m, FromJSON(us[fk[i]]))])

\* Element.clear_features: the user strings without the feature keys
clear_features(us) ==
    [k \in { key \in DOMAIN us : ~ContainsFeature(key) } |-> us[k]]

\* Element.clear_features: the list of keys without the feature keys
clear_feature_keys(keys) ==
    LET Other(key) == ~ContainsFeature(key)
    IN  SelectSeq(keys, Other)

\* SetUserString(key, value) on the list of keys: a new key goes to the end
AppendKey(keys, key) ==
    IF \E i \in 1..Len(keys) : keys[i] = key THEN keys ELSE Append(keys, key)

\* Element.features (setter): the loop over enumerate(value) from idx on;
\* geometry.Transform changes the caller's geometry in place
RECURSIVE WriteFeatures(_, _, _, _, _, _)
WriteFeatures(us, keys, m, value, feature_count, idx) ==
    IF idx >= Len(value) THEN [us |-> us, keys |-> keys]
    ELSE LET geometry == TransformPolylineInverse(m, value[idx + 1])
             key == FeatureKey(feature_count, idx)
         IN  WriteFeatures(SetUserString(us, key, ToJSON(geometry)),
                           AppendKey(keys, key), m, value, feature_count, idx + 1)

\* the geometries of value after the setter's loop
FeaturesInPlace(m, value) ==
    [i \in 1..Len(value) |-> TransformPolylineInverse(m, value[i])]

\* feature geometries and lists of them
FeatureG1 == << PointA, PointB >>
FeatureG2 == << PointC, PointB, PointA >>
FeatureG3 == << PointC >>
FeaturesPool ==
    { << >>, << FeatureG1 >>, << FeatureG1, FeatureG2 >>,
      << FeatureG2, FeatureG1, FeatureG3 >>, << FeatureG3, FeatureG3 >> }

\* the user strings of a shape that has a name and nothing else
NameBeam == << "b", "e", "a", "m" >>
NamedOnly == SetUserString(Empty, KeyName, NameBeam)

\* an Element over a shape without features, with or without a name
FeaturesInit ==
    /\ marker \in MarkerPool
    /\ user_strings \in { Empty, NamedOnly }
    /\ self_axes = NoAttr
    /\ self_neighbours = NoAttr
    /\ self_radii = NoAttr
    /\ self_joint_types = NoAttr
    /\ ret = NoResult
    /\ feature_keys = << >>
    /\ self_features = NoAttr
    /\ self_thickness = NoAttr
    /\ self_volumes = NoAttr
    /\ insertion_value = NoAttr
    /\ added = NoAttr

\* Element.features = value
SetFeatures ==
    /\ \E value \in FeaturesPool :
          LET cleared == clear_features(user_strings)
              cleared_keys == clear_feature_keys(feature_keys)
              feature_count == features_count(cleared_keys)
              w == WriteFeatures(cleared, cleared_keys, marker, value, feature_count, 0)
          IN  /\ self_features' = Attr(FeaturesInPlace(marker, value))
              /\ user_strings' = w.us
              /\ feature_keys' = w.keys
    /\ ret' = NoResult
    /\ UNCHANGED << marker, self_axes, self_neighbours, self_radii, self_joint_types >>
    /\ UNCHANGED << self_thickness, self_volumes, insertion_value, added >>
    /\ UNCHANGED << gvars, dvars >>

\* every coordinate of the geometries is within the bound
CoordsWithin(value, bound) ==
    \A i \in 1..Len(value) : \A j \in 1..Len(value[i]) : \A k \in 1..3 :
        value[i][j][k] \in (0 - bound)..bound

\* Element.features = value, with the list that was assigned before: the
\* caller still holds the geometries, as the setter left them
SetFeaturesSame ==
    /\ self_features.set
    /\ CoordsWithin(self_features.val, MaxCoord)
    /\ LET value == self_features.val
           cleared == clear_features(user_strings)
           cleared_keys == clear_feature_keys(feature_keys)
           feature_count == features_count(cleared_keys)
           w == WriteFeatures(cleared, cleared_keys, marker, value, feature_count, 0)
       IN  /\ self_features' = Attr(FeaturesInPlace(marker, value))
           /\ user_strings' = w.us
           /\ feature_keys' = w.keys
    /\ ret' = NoResult
    /\ UNCHANGED << marker, self_axes, self_neighbours, self_radii, self_joint_types >>
    /\ UNCHANGED << self_thickness, self_volumes, insertion_value, added >>
    /\ UNCHANGED << gvars, dvars >>

\* Element.clear_features()
ClearFeatures ==
    /\ user_strings' = clear_features(user_strings)
    /\ feature_keys' = clear_feature_keys(feature_keys)
    /\ ret' = NoResult
    /\ UNCHANGED << marker, self_axes, self_neighbours, self_radii, self_joint_types >>
    /\ UNCHANGED << self_features, self_thickness, self_volumes, insertion_value, added >>
    /\ UNCHANGED << gvars, dvars >>

\* Element.features
GetFeatures ==
    /\ ret' = Result("features", features_get(user_strings, feature_keys, marker))
    /\ UNCHANGED << marker, user_strings, self_axes, self_neighbours, self_radii,
                    self_joint_types >>
    /\ UNCHANGED << gvars, fvars, dvars >>

\* Element.features_count
GetFeaturesCount ==
    /\ ret' = Result("features_count", Returned(PyInt(features_count(feature_keys))))
    /\ UNCHANGED << marker, user_strings, self_axes, self_neighbours, self_radii,
                    self_joint_types >>
    /\ UNCHANGED << gvars, fvars, dvars >>

FeaturesNext ==
    \/ SetFeatures
    \/ SetFeaturesSame
    \/ ClearFeatures
    \/ GetFeatures
    \/ GetFeaturesCount

(***************************************************************************)
(* index, thickness, pair_polyline and insertion of an Element             *)
(***************************************************************************)
\* the number a string holds, for int(value) and float(value): Malformed
\* when the string is not one number
NumberOf(value) ==
    LET r == ParseNumber(value, SkipSpaces(value, 1))
    IN  IF r.ok /\ SkipSpaces(value, r.pos) > Len(value) THEN r ELSE Malformed

\* int(value)
int_of(value) ==
    IF value = None THEN Raised("TypeError")
    ELSE LET r == NumberOf(value)
         IN  IF r.ok /\ r.val[1] = "int" THEN Returned(r.val)
             ELSE Raised("ValueError")

\* float(value)
float_of(value) ==
    IF value = None THEN Raised("TypeError")
    ELSE LET r == NumberOf(value)
         IN  IF r.ok THEN Returned(PyFloat(ToDouble(r.val)))
             ELSE Raised("ValueError")

\* Element.index (getter)
index_get(us) == int_of(GetUserString(us, KeyIndex))

\* Element.thickness (getter)
thickness_get(us) == float_of(GetUserString(us, KeyThickness))

\* Element.pair_polyline (setter): the loop `for i in range(0, len(value), 2)`
\* from i on, after the pairs acc
RECURSIVE PairCoordinates(_, _, _, _)
PairCoordinates(m, value, i, acc) ==
    IF i > Len(value) THEN Returned(acc)
    ELSE IF i + 1 > Len(value) THEN Raised("IndexError")
    ELSE PairCoordinates(m, value, i + 2,
             Append(acc,
                 PyList(<< PyList(Coordinates(TransformPolylineInverse(m, value[i]))),
                           PyList(Coordinates(TransformPolylineInverse(m, value[i + 1]))) >>)))

\* Element.pair_polyline (setter): the string written, or the exception
pair_polyline_str(m, value) ==
    LET c == PairCoordinates(m, value, 1, << >>)
    IN  IF c.ok THEN Returned(PyStr(PyList(c.val))) ELSE c

\* the coordinates of a list of vectors: [x, y, z, x, y, z, ...]
VectorCoordinates(list_vectors) == Coordinates(list_vectors)

\* Element.insertion (setter): the string written, or the exception; after
\* the loop `coordinates` is the list of the last inner list, and is not
\* bound when value is empty
insertion_str(value) ==
    IF value = << >> THEN Raised("UnboundLocalError")
    ELSE Returned(PyStr(PyList(VectorCoordinates(value[Len(value)]))))

\* Element.insertion (getter): the loop over list_values, after acc
RECURSIVE VectorsFromLists(_, _)
VectorsFromLists(list_values, acc) ==
    IF list_values = << >> THEN Returned(acc)
    ELSE IF ~IsList(Head(list_values)) THEN Raised("TypeError")
    ELSE LET v == PointsFromItems(Head(list_values)[2], 1, << >>)
         IN  IF v.ok THEN VectorsFromLists(Tail(list_values), Append(acc, v.val))
             ELSE v

\* Element.insertion (getter)
insertion_get(us, m) ==
    LET value == GetUserString(us, KeyInsertion)
    IN  IF value = Dash \/ value = None
        THEN LET pairs == pair_polyline_get(us, m)
             IN  IF pairs.ok
                 THEN Returned([i \in 1..Len(pairs.val) |-> << >>])
                 ELSE pairs
        ELSE LET list_values == literal_eval(value)
             IN  IF ~list_values.ok THEN list_values
                 ELSE IF ~IsList(list_values.val) THEN Raised("TypeError")
                 ELSE VectorsFromLists(list_values.val[2], << >>)

(***************************************************************************)
(* Element.add_element: the user strings it writes on the new shape        *)
(***************************************************************************)
\* the truth value of a Python number or list
PyTruthy(v) == IF IsList(v) THEN v[2] # << >> ELSE v[2] # 0

\* str(x) if x else "-"
StrOrDash(v) == IF PyTruthy(v) THEN PyStr(v) ELSE Dash

\* the coordinates lists of the polylines, as add_element builds them for
\* pair_polyline and pair_polyline_merged: no transformation, no pairing
ListCoordinates(polylines) ==
    [i \in 1..Len(polylines) |-> PyList(Coordinates(polylines[i]))]

\* str(list_coordinates) if len(list_coordinates) > 0 else "-"
ListCoordinatesStr(polylines) ==
    IF Len(polylines) > 0 THEN PyStr(PyList(ListCoordinates(polylines))) ELSE Dash

\* bbox.Max.Z - bbox.Min.Z of the shape
BoxHeight(shape) == shape.max[3] - shape.min[3]

\* abs(bbox.Max.X - bbox.Min.X) * 0.5; the boxes used have a width that is
\* a whole number of units, so that the half is a number of halves
BoxHalfWidth(shape) ==
    LET w == shape.max[1] - shape.min[1]
    IN  (IF w < 0 THEN -w ELSE w) \div 2

\* the axes branch: the string written, and the list the name `axes` is
\* bound to afterwards
AxesWritten(shape, axes) ==
    IF axes = << >>
    THEN [str |-> << "[", "[", "0", ",", "0", ",", "0", ",", "0", ",", "0", "," >> \o FloatStr(BoxHeight(shape)) \o << "]", "]" >>,
          axes |-> << << Origin3d, << 0, 0, BoxHeight(shape) >> >> >>]
    ELSE [str |-> PyStr(PyList(<< >>)), axes |-> << >>]

\* the loop `for j in range(len(axis) - 1)` of the radii branch
RECURSIVE SegmentRadii(_, _, _, _)
SegmentRadii(radii, count, segments, acc) ==
    IF segments <= 0 THEN acc
    ELSE SegmentRadii(radii, count + 1, segments - 1,
                      Append(acc, radii[(count % Len(radii)) + 1]))

\* the loop `for axis in axes` of the radii branch
RECURSIVE RadiiMatchedToAxes(_, _, _, _)
RadiiMatchedToAxes(radii, axes, count, acc) ==
    IF axes = << >> THEN acc
    ELSE LET segments == Len(Head(axes)) - 1
         IN  RadiiMatchedToAxes(radii, Tail(axes),
                 count + (IF segments > 0 THEN segments ELSE 0),
                 Append(acc, PyList(SegmentRadii(radii, count, segments, << >>))))

\* the radii branch: the string written
RadiiWritten(shape, radii, axes) ==
    IF Len(radii) = 0
    THEN << "[", "[" >> \o FloatStr(BoxHalfWidth(shape)) \o << "]", "]" >>
    ELSE PyStr(PyList(RadiiMatchedToAxes(radii, axes, 0, << >>)))

\* the loop over enumerate(features): one blob per mesh or brep
RECURSIVE AddFeatures(_, _, _, _)
AddFeatures(us, keys, features, idx) ==
    IF idx >= Len(features) THEN [us |-> us, keys |-> keys]
    ELSE LET key == FeatureKey(0, idx)
         IN  AddFeatures(SetUserString(us, key, ToJSON(features[idx + 1])),
                         AppendKey(keys, key), features, idx + 1)

\* the user strings of the shape after add_element(shape, ..., a)
add_element(a) ==
    LET u1 == SetUserString(Empty, KeyName, IF a.name # << >> THEN a.name ELSE Dash)
        u2 == SetUserString(u1, KeyIndex, StrOrDash(a.index))
        u3 == SetUserString(u2, KeyNeighbours, StrOrDash(a.neighbours))
        f == AddFeatures(u3, << >>, a.features, 0)
        u4 == SetUserString(f.us, KeyPairPolyline, ListCoordinatesStr(a.pair_polyline))
        u5 == SetUserString(u4, KeyPairPolylineMerged,
                            ListCoordinatesStr(a.pair_polyline_merged))
        ax == AxesWritten(a.shape, a.axes)
        u6 == SetUserString(u5, KeyAxes, ax.str)
        u7 == SetUserString(u6, KeyRadii, RadiiWritten(a.shape, a.radii, ax.axes))
        u8 == SetUserString(u7, KeyThickness, StrOrDash(a.thickness))
        u9 == SetUserString(u8, KeyInsertion, Dash)
    IN  [us |-> SetUserString(u9, KeyJointTypes, Dash), keys |-> f.keys]

\* the marker add_element draws: [p1, p0, p2] with p1 and p2 at 0.1 from p0
\* along X and Y; only the directions of the two legs enter the plane, and
\* the legs are written here with the length of one half
GroupFrame == << << 1, 0, 0 >>, << 0, 0, 0 >>, << 0, 1, 0 >> >>

(***************************************************************************)
(* Actions on an entity made by add_element, or on a bare shape            *)
(***************************************************************************)
\* shapes: None, and a box 3 wide and 5 high
NoShape == [given |-> FALSE, min |-> Origin3d, max |-> Origin3d]
ShapeBox == [given |-> TRUE, min |-> << -3, 0, 0 >>, max |-> << 3, 2, 10 >>]

\* polylines of pair_polyline and vectors of insertion
PolyA == << PointA, PointB >>
PolyB == << PointC, PointB, PointA >>
PolyC == << PointB, PointC >>
VecX == << 2, 0, 0 >>
VecY == << 0, -2, 0 >>
VecZ == << 0, 0, 1 >>

\* the arguments of add_element; the defaults first
AddDefaults ==
    [shape |-> ShapeBox, name |-> NameBeam, index |-> PyInt(-1),
     neighbours |-> PyList(<< >>), features |-> << >>, pair_polyline |-> << >>,
     pair_polyline_merged |-> << >>, axes |-> << >>, radii |-> << >>,
     thickness |-> PyFloat(0)]

AddCalls ==
    { AddDefaults,
      [AddDefaults EXCEPT !.shape = NoShape],
      [AddDefaults EXCEPT !.index = PyInt(0), !.thickness = PyFloat(5),
                          !.neighbours = PyList(<< PyInt(1), PyInt(-2), PyInt(10) >>),
                          !.pair_polyline = << PolyA, PolyB >>],
      [AddDefaults EXCEPT !.index = PyInt(3), !.features = << FeatureG3, FeatureG1 >>,
                          !.pair_polyline = << PolyA, PolyB, PolyC, PolyA >>,
                          !.radii = << PyList(<< PyFloat(3), PyFloat(4) >>), PyList(<< PyFloat(1) >>) >>],
      [AddDefaults EXCEPT !.index = PyInt(0), !.name = << >>,
                          !.axes = << PolyB >>],
      [AddDefaults EXCEPT !.thickness = PyFloat(5), !.axes = << PolyA, PolyB >>,
                          !.radii = << PyFloat(3) >>,
                          !.pair_polyline_merged = << PolyC >>] }

\* the values given to the setters
ThicknessPool == { PyFloat(0), PyFloat(5) }
PairPool == { << >>, << PolyA, PolyB >>, << PolyB, PolyC, PolyA, PolyA >> }
InsertionPool ==
    { << >>, << << VecX >> >>, << << VecX >>, << VecY, VecZ >> >>,
      << << VecZ, VecX >>, << >> >> }

\* an Element over a bare shape: no user string written yet
FieldsInit ==
    /\ marker \in { MarkerWorld, MarkerTurned }
    /\ user_strings = Empty
    /\ self_axes = NoAttr
    /\ self_neighbours = NoAttr
    /\ self_radii = NoAttr
    /\ self_joint_types = NoAttr
    /\ ret = NoResult
    /\ feature_keys = << >>
    /\ self_features = NoAttr
    /\ self_thickness = NoAttr
    /\ self_volumes = NoAttr
    /\ insertion_value = NoAttr
    /\ added = NoAttr

\* Element.add_element(shape, ...), and an Element over the shape and the
\* marker it added; nothing is added when there is no shape
AddElement ==
    \E a \in AddCalls :
        IF ~a.shape.given THEN UNCHANGED vars
        ELSE LET w == add_element(a)
             IN  /\ marker' = GroupFrame
                 /\ user_strings' = w.us
                 /\ feature_keys' = w.keys
                 /\ added' = Attr(a)
                 /\ self_axes' = NoAttr
                 /\ self_neighbours' = NoAttr
                 /\ self_radii' = NoAttr
                 /\ self_joint_types' = NoAttr
                 /\ self_features' = NoAttr
                 /\ self_thickness' = NoAttr
                 /\ self_volumes' = NoAttr
                 /\ insertion_value' = NoAttr
                 /\ ret' = NoResult
                 /\ UNCHANGED << gvars, dvars >>

\* Element.index
GetIndex ==
    /\ ret' = Result("index", index_get(user_strings))
    /\ UNCHANGED << marker, user_strings, self_axes, self_neighbours, self_radii,
                    self_joint_types >>
    /\ UNCHANGED << gvars, fvars, dvars >>

\* Element.thickness = value
SetThickness ==
    /\ \E value \in ThicknessPool :
          /\ self_thickness' = Attr(value)
          /\ user_strings' = SetUserString(user_strings, KeyThickness, PyStr(value))
    /\ ret' = NoResult
    /\ UNCHANGED << marker, self_axes, self_neighbours, self_radii, self_joint_types >>
    /\ UNCHANGED << feature_keys, self_features, self_volumes, insertion_value, added >>
    /\ UNCHANGED << gvars, dvars >>

\* Element.thickness
GetThickness ==
    /\ ret' = Result("thickness", thickness_get(user_strings))
    /\ UNCHANGED << marker, user_strings, self_axes, self_neighbours, self_radii,
                    self_joint_types >>
    /\ UNCHANGED << gvars, fvars, dvars >>

\* Element.pair_polyline = value
SetPairPolyline ==
    /\ \E value \in PairPool :
          LET w == pair_polyline_str(marker, value)
          IN  /\ self_volumes' = Attr(value)
              /\ user_strings' = IF w.ok
                                 THEN SetUserString(user_strings, KeyPairPolyline, w.val)
                                 ELSE user_strings
              /\ ret' = IF w.ok THEN NoResult ELSE Result("pair_polyline=", w)
    /\ UNCHANGED << marker, self_axes, self_neighbours, self_radii, self_joint_types >>
    /\ UNCHANGED << feature_keys, self_features, self_thickness, insertion_value, added >>
    /\ UNCHANGED << gvars, dvars >>

\* Element.pair_polyline
GetPairPolyline ==
    /\ ret' = Result("pair_polyline", pair_polyline_get(user_strings, marker))
    /\ UNCHANGED << marker, user_strings, self_axes, self_neighbours, self_radii,
                    self_joint_types >>
    /\ UNCHANGED << gvars, fvars, dvars >>

\* Element.insertion = value
SetInsertion ==
    /\ \E value \in InsertionPool :
          LET w == insertion_str(value)
          IN  /\ insertion_value' = Attr(value)
              /\ user_strings' = IF w.ok
                                 THEN SetUserString(user_strings, KeyInsertion, w.val)
                                 ELSE user_strings
              /\ ret' = IF w.ok THEN NoResult ELSE Result("insertion=", w)
    /\ UNCHANGED << marker, self_axes, self_neighbours, self_radii, self_joint_types >>
    /\ UNCHANGED << feature_keys, self_features, self_thickness, self_volumes, added >>
    /\ UNCHANGED << gvars, dvars >>

\* Element.insertion
GetInsertion ==
    /\ ret' = Result("insertion", insertion_get(user_strings, marker))
    /\ UNCHANGED << marker, user_strings, self_axes, self_neighbours, self_radii,
                    self_joint_types >>
    /\ UNCHANGED << gvars, fvars, dvars >>

FieldsNext ==
    \/ AddElement
    \/ GetIndex
    \/ SetThickness
    \/ GetThickness
    \/ SetPairPolyline
    \/ GetPairPolyline
    \/ SetInsertion
    \/ GetInsertion
    \/ GetNeighbours
    \/ GetAxes
    \/ GetRadii
    \/ GetJointTypes

(***************************************************************************)
(* An entity whose user strings were edited in the document, outside the   *)
(* Element class, and the getters of the list-valued fields on it          *)
(***************************************************************************)
\* texts found in a user string: an unclosed list, a number, a flat list, a
\* nested list, and "-"
TextUnclosed == << "[", "1", ",", " ", "2" >>
TextNumber == << "5" >>
TextFlat == PyStr(PyList(<< PyInt(1), PyInt(2), PyInt(3) >>))
TextNested == PyStr(PyList(<< PyList(<< PyFloat(0), PyFloat(0), PyFloat(0),
                                        PyFloat(0), PyFloat(0), PyFloat(5) >>) >>))
TextPool == { TextUnclosed, TextNumber, TextFlat, TextNested, Dash }

ListKeys ==
    { KeyNeighbours, KeyAxes, KeyRadii, KeyPairPolyline, KeyInsertion, KeyJointTypes }

\* the document sets one user string of the shape (a user editing the
\* attribute, another plug-in, a file written by another version)
UserStringEdited ==
    /\ \E key \in ListKeys : \E text \in TextPool :
          /\ Cardinality(DOMAIN user_strings \cup { key }) <= MaxEdited
          /\ user_strings' = SetUserString(user_strings, key, text)
    /\ ret' = NoResult
    /\ UNCHANGED << marker, self_axes, self_neighbours, self_radii, self_joint_types >>
    /\ UNCHANGED << gvars, fvars, dvars >>

EditedNext ==
    \/ UserStringEdited
    \/ GetNeighbours
    \/ GetAxes
    \/ GetRadii
    \/ GetPairPolyline
    \/ GetInsertion
    \/ GetJointTypes

(***************************************************************************)
(* The frame resolvers of groups.py, next to Element.plane                 *)
(***************************************************************************)
\* polyline_obj_to_plane
polyline_obj_to_plane(m) ==
    IF Len(m) = 3
    THEN PlaneFromFrame(m[2], VecSub(m[1], m[2]), VecSub(m[3], m[2]))
    ELSE PlaneUnset

\* polyline_to_plane
polyline_to_plane(m) ==
    IF Len(m) = 5
    THEN PlaneFromFrame(m[2], VecSub(m[1], m[2]), VecSub(m[3], m[2]))
    ELSE PlaneUnset

\* the polylines given to the resolvers: the marker frames, cut short to
\* fewer than three points or continued by one or two more points
MorePoints == { PointA, PointB, PointC }
FramePool ==
    UNION { { SubSeq(m, 1, n) : n \in 0..3 }
            \cup { m \o << p >> : p \in MorePoints }
            \cup { m \o << p, q >> : p \in MorePoints, q \in MorePoints }
            : m \in MarkerPool }

\* a polyline, not yet given to a resolver
FramesInit ==
    /\ marker \in FramePool
    /\ user_strings = Empty
    /\ self_axes = NoAttr
    /\ self_neighbours = NoAttr
    /\ self_radii = NoAttr
    /\ self_joint_types = NoAttr
    /\ ret = NoResult
    /\ feature_keys = << >>
    /\ self_features = NoAttr
    /\ self_thickness = NoAttr
    /\ self_volumes = NoAttr
    /\ insertion_value = NoAttr
    /\ added = NoAttr

\* Element.plane
GetPlane ==
    /\ ret' = Result("plane", Returned(ElementPlane(marker)))
    /\ UNCHANGED << marker, user_strings, self_axes, self_neighbours, self_radii,
                    self_joint_types >>
    /\ UNCHANGED << gvars, fvars, dvars >>

\* polyline_obj_to_plane(polyline_obj)
CallPolylineObjToPlane ==
    /\ ret' = Result("polyline_obj_to_plane", Returned(polyline_obj_to_plane(marker)))
    /\ UNCHANGED << marker, user_strings, self_axes, self_neighbours, self_radii,
                    self_joint_types >>
    /\ UNCHANGED << gvars, fvars, dvars >>

\* polyline_to_plane(polyline)
CallPolylineToPlane ==
    /\ ret' = Result("polyline_to_plane", Returned(polyline_to_plane(marker)))
    /\ UNCHANGED << marker, user_strings, self_axes, self_neighbours, self_radii,
                    self_joint_types >>
    /\ UNCHANGED << gvars, fvars, dvars >>

FramesNext ==
    \/ GetPlane
    \/ CallPolylineObjToPlane
    \/ CallPolylineToPlane

(***************************************************************************)
(* The document: the layer table, the objects, the groups, and the entry   *)
(* "polylines_guid" of wood_rui_globals                                    *)
(***************************************************************************)
\* the number of calls on one document
MaxCalls == 3

\* names of layers; "::" parts the names of a full path
NameDefault == << "D", "e", "f", "a", "u", "l", "t" >>
NameCompasWood == << "c", "o", "m", "p", "a", "s", "_", "w", "o", "o", "d" >>
NameW == << "w" >>
NameD1 == << "d", "1" >>
NameD2 == << "d", "2" >>
NamePolylines == << "p", "o", "l", "y", "l", "i", "n", "e", "s" >>
NameSkeleton == << "s", "k", "e", "l", "e", "t", "o", "n" >>
NameJointTypes == << "j", "o", "i", "n", "t", "_", "t", "y", "p", "e", "s" >>
LayerSep == << ":", ":" >>

PluginNames == { NameCompasWood, NameW }
DataNames == { NameD1, NameD2 }
TypeNames == { NamePolylines, NameD1 }

\* a layer: its name and the index of its parent layer, -1 for none; the
\* index of a layer is its place in the table, from 0, and stands for its Id
Layer(name, parent) == [name |-> name, parent |-> parent]

\* layer.FullPath
RECURSIVE FullPath(_, _)
FullPath(table, index) ==
    LET layer == table[index + 1]
    IN  IF layer.parent < 0 THEN layer.name
        ELSE FullPath(table, layer.parent) \o LayerSep \o layer.name

\* mutant: no layer is ever found
FindByFullPathNever(table, path) == -1

\* Layers.FindByFullPath(path, True): the index of the layer, -1 for none
FindByFullPath(table, path) ==
    LET found == { i \in 0..(Len(table) - 1) : FullPath(table, i) = path }
    IN  IF found = {} THEN -1
        ELSE CHOOSE i \in found : \A j \in found : i <= j

\* Layers.Add: the table with the new layer last
LayersAdd(table, name, parent) == Append(table, Layer(name, parent))

\* ensure_layer_exists without delete_existing: the table and the index
\* returned
ensure_layer_exists(table, plugin_name, data_name, type_name) ==
    LET plugin_found == FindByFullPath(table, plugin_name)
        t1 == IF plugin_found < 0 THEN LayersAdd(table, plugin_name, -1) ELSE table
        plugin_layer_index == IF plugin_found < 0 THEN Len(t1) - 1 ELSE plugin_found
        case_layer_name == plugin_name \o LayerSep \o data_name
        case_found == FindByFullPath(t1, case_layer_name)
        t2 == IF case_found < 0 THEN LayersAdd(t1, data_name, plugin_layer_index) ELSE t1
        case_layer_index == IF case_found < 0 THEN Len(t2) - 1 ELSE case_found
        type_layer_name == case_layer_name \o LayerSep \o type_name
        type_found == FindByFullPath(t2, type_layer_name)
        t3 == IF type_found < 0 THEN LayersAdd(t2, type_name, case_layer_index) ELSE t2
        type_layer_index == IF type_found < 0 THEN Len(t3) - 1 ELSE type_found
    IN  [layers |-> t3, index |-> type_layer_index]

\* an object of the document: what it is, the dataset it was added for, its
\* layer, the call that added it, and whether it was deleted since; the id of
\* an object is its place in doc_objects
DocObject(kind, data, layer, call) ==
    [kind |-> kind, data |-> data, layer |-> layer, call |-> call, deleted |-> FALSE]

\* delete_objects_in_layer: the objects of the layer and of its child layers
delete_objects_in_layer(objects, table, layer_index) ==
    [i \in 1..Len(objects) |->
        IF \/ objects[i].layer = layer_index
           \/ table[objects[i].layer + 1].parent = layer_index
        THEN [objects[i] EXCEPT !.deleted = TRUE]
        ELSE objects[i]]

\* delete_objects(guids)
delete_objects(objects, guids) ==
    [i \in 1..Len(objects) |->
        IF i \in Range(guids) THEN [objects[i] EXCEPT !.deleted = TRUE]
        ELSE objects[i]]

\* what ensure_layer_exists returned for a path the first time
NoteFirst(first, plugin_name, data_name, type_name, index) ==
    LET names == << plugin_name, data_name, type_name >>
    IN  IF names \in DOMAIN first THEN first ELSE first @@ (names :> index)

\* the last call on the document, and per dataset the number of the latest
\* call of add_polylines or add_skeleton
NoCall == [call |-> "none", exit |-> "none", latest |-> [d \in DataNames |-> 0]]

\* a document with its default layer, no object and nothing registered
DocumentIdle ==
    /\ object_kinds = << >>
    /\ valid_groups = NotCalled
    /\ layers = << Layer(NameDefault, -1) >>
    /\ layer_ret = NoAttr
    /\ layer_first = Empty
    /\ doc_objects = << >>
    /\ doc_groups = << >>
    /\ globals_guid = [d \in DataNames |-> NoAttr]
    /\ doc_exit = NoCall
    /\ doc_calls = 0

\* ensure_layer_exists(plugin_name, data_name, type_name, color, delete_existing)
EnsureLayerExists ==
    /\ doc_calls < MaxCalls
    /\ \E plugin_name \in PluginNames : \E data_name \in DataNames :
       \E type_name \in TypeNames : \E delete_existing \in BOOLEAN :
          LET r == ensure_layer_exists(layers, plugin_name, data_name, type_name)
          IN  /\ layers' = r.layers
              /\ layer_ret' = Attr([plugin |-> plugin_name, data |-> data_name,
                                    type |-> type_name, index |-> r.index,
                                    before |-> layers])
              /\ layer_first' = NoteFirst(layer_first, plugin_name, data_name,
                                          type_name, r.index)
              /\ doc_objects' = IF delete_existing
                                THEN delete_objects_in_layer(doc_objects, r.layers, r.index)
                                ELSE doc_objects
    /\ doc_exit' = [doc_exit EXCEPT !.call = "ensure_layer_exists", !.exit = "returned"]
    /\ doc_calls' = doc_calls + 1
    /\ UNCHANGED << object_kinds, valid_groups, doc_groups, globals_guid >>
    /\ UNCHANGED << gvars, evars, fvars >>

\* the polylines handed to add_polylines and add_skeleton: a polyline with
\* points becomes a curve of the document, one without points is skipped by
\* `if polyline:`
PolylinesPool ==
    { << >>, << "curve" >>, << "curve", "empty", "curve" >> }

\* the loop over enumerate(polylines) of add_polylines
RECURSIVE AddCurves(_, _, _, _)
AddCurves(objects, polylines, proto, guids) ==
    IF polylines = << >> THEN [objects |-> objects, guids |-> guids]
    ELSE IF Head(polylines) = "curve"
         THEN AddCurves(Append(objects, proto), Tail(polylines), proto,
                        Append(guids, Len(objects) + 1))
         ELSE AddCurves(objects, Tail(polylines), proto, guids)

\* add_polylines(polylines, data_name)
add_polylines(table, objects, guid, polylines, data_name, call) ==
    LET l1 == ensure_layer_exists(table, NameCompasWood, data_name, NamePolylines)
        curves == AddCurves(objects, polylines,
                           DocObject("polylines", data_name, l1.index, call), << >>)
        kept == IF guid[data_name].set
                THEN delete_objects(curves.objects, guid[data_name].val)
                ELSE curves.objects
        l2 == ensure_layer_exists(l1.layers, NameCompasWood, data_name, NameJointTypes)
    IN  [layers |-> l2.layers, objects |-> kept,
         guid |-> [guid EXCEPT ![data_name] = Attr(curves.guids)],
         first |-> << << NamePolylines, l1.index >>, << NameJointTypes, l2.index >> >>,
         exit |-> "returned"]

\* the loop over enumerate(polylines) of add_skeleton; distances, meshes and
\* transforms are given by their lengths (0 for the empty list and for None);
\* an index past the end of one of them raises IndexError after the curve
\* was curves
RECURSIVE AddAxes(_, _, _, _, _, _)
AddAxes(objects, polylines, idx, proto, guids, lens) ==
    IF polylines = << >>
    THEN [objects |-> objects, guids |-> guids, exit |-> "returned"]
    ELSE IF Head(polylines) = "curve"
         THEN LET objects1 == Append(objects, proto)
                  guids1 == Append(guids, Len(objects) + 1)
              IN  IF \/ idx >= lens.distances
                     \/ (lens.meshes > 0 /\ idx >= lens.meshes)
                     \/ (lens.transforms > 0 /\ idx >= lens.transforms)
                  THEN [objects |-> objects1, guids |-> guids1, exit |-> "IndexError"]
                  ELSE AddAxes(objects1, Tail(polylines), idx + 1, proto, guids1, lens)
         ELSE AddAxes(objects, Tail(polylines), idx + 1, proto, guids, lens)

\* add_skeleton(polylines, data_name, distances, meshes, transforms)
add_skeleton(table, objects, guid, polylines, data_name, lens, call) ==
    LET l1 == ensure_layer_exists(table, NameCompasWood, data_name, NameSkeleton)
        curves == AddAxes(objects, polylines, 0,
                         DocObject("axes", data_name, l1.index, call), << >>, lens)
        kept == IF guid[data_name].set
                THEN delete_objects(curves.objects, guid[data_name].val)
                ELSE curves.objects
        l2 == ensure_layer_exists(l1.layers, NameCompasWood, data_name, NameJointTypes)
    IN  IF curves.exit = "returned"
        THEN [layers |-> l2.layers, objects |-> kept,
              guid |-> [guid EXCEPT ![data_name] = Attr(curves.guids)],
              first |-> << << NameSkeleton, l1.index >>, << NameJointTypes, l2.index >> >>,
              exit |-> "returned"]
        ELSE [layers |-> l1.layers, objects |-> curves.objects, guid |-> guid,
              first |-> << << NameSkeleton, l1.index >> >>,
              exit |-> curves.exit]

\* the lengths of distances, meshes and transforms; the defaults first
LensDefault == [distances |-> 0, meshes |-> 0, transforms |-> 0]
LensPool ==
    { LensDefault,
      [distances |-> 3, meshes |-> 0, transforms |-> 0],
      [distances |-> 3, meshes |-> 3, transforms |-> 1] }

\* layer_first after the calls of ensure_layer_exists within one call
RECURSIVE NoteAll(_, _, _)
NoteAll(first, data_name, returned) ==
    IF returned = << >> THEN first
    ELSE NoteAll(NoteFirst(first, NameCompasWood, data_name, Head(returned)[1],
                           Head(returned)[2]),
                 data_name, Tail(returned))

\* the document after a call r of add_polylines or add_skeleton
Registered(r, name, data_name) ==
    /\ layers' = r.layers
    /\ layer_first' = NoteAll(layer_first, data_name, r.first)
    /\ doc_objects' = r.objects
    /\ globals_guid' = r.guid
    /\ doc_exit' = [call |-> name, exit |-> r.exit,
                    latest |-> [doc_exit.latest EXCEPT ![data_name] = doc_calls + 1]]
    /\ doc_calls' = doc_calls + 1
    /\ UNCHANGED << object_kinds, valid_groups, layer_ret, doc_groups >>
    /\ UNCHANGED << gvars, evars, fvars >>

AddPolylines ==
    /\ doc_calls < MaxCalls
    /\ \E polylines \in PolylinesPool : \E data_name \in DataNames :
          Registered(add_polylines(layers, doc_objects, globals_guid, polylines,
                                   data_name, doc_calls + 1),
                     "add_polylines", data_name)

AddSkeleton ==
    /\ doc_calls < MaxCalls
    /\ \E polylines \in PolylinesPool : \E data_name \in DataNames :
       \E lens \in LensPool :
          Registered(add_skeleton(layers, doc_objects, globals_guid, polylines,
                                  data_name, lens, doc_calls + 1),
                     "add_skeleton", data_name)

\* the shape given to add_element: None, a mesh, a brep, or a curve
ShapeKinds == { "None", "mesh", "brep", "curve" }

\* what the document store answers during one add_element: every call
\* succeeds, or the one named here fails (AddMesh and AddBrep return the
\* empty Guid, Find returns None)
StoreAnswers ==
    { "ok", "add shape fails", "find shape fails", "add group frame fails",
      "find group frame fails" }

\* Element.add_element up to the group of the shape and its marker: the
\* objects, the groups and the exit taken; an empty Guid is no false value,
\* so a shape or marker that was not added is noticed when Find gives None
add_element_objects(objects, groups, shape, layer_index, store, call) ==
    LET with_shape == Append(objects, DocObject("shape", << >>, 0, call))
        shape_id == Len(with_shape)
        on_layer == [with_shape EXCEPT ![shape_id].layer = layer_index]
        with_frame == Append(on_layer, DocObject("group frame", << >>, 0, call))
        frame_id == Len(with_frame)
    IN  IF shape = "None"
        THEN [objects |-> objects, groups |-> groups, exit |-> "no shape to add"]
        ELSE IF shape \notin { "mesh", "brep" }
        THEN [objects |-> objects, groups |-> groups, exit |-> "shape is not a mesh or brep"]
        ELSE IF store = "add shape fails"
        THEN [objects |-> objects, groups |-> groups, exit |-> "failed to find shape"]
        ELSE IF store = "find shape fails"
        THEN [objects |-> with_shape, groups |-> groups, exit |-> "failed to find shape"]
        ELSE IF store = "add group frame fails"
        THEN [objects |-> on_layer, groups |-> groups, exit |-> "failed to find group frame"]
        ELSE IF store = "find group frame fails"
        THEN [objects |-> with_frame, groups |-> groups, exit |-> "failed to find group frame"]
        ELSE [objects |-> with_frame, groups |-> Append(groups, { shape_id, frame_id }),
              exit |-> "grouped"]

\* Element.add_element(shape, layer_name, name, ...) on the document; the
\* user strings it then writes on the shape are followed in SpecFields
AddElementToDocument ==
    /\ doc_calls < MaxCalls
    /\ \E layer_name \in DataNames : \E shape \in ShapeKinds : \E store \in StoreAnswers :
          LET name == NameBeam
              l == ensure_layer_exists(layers, NameCompasWood, layer_name, name)
              r == add_element_objects(doc_objects, doc_groups, shape, l.index,
                                       store, doc_calls + 1)
          IN  /\ layers' = l.layers
              /\ layer_first' = NoteFirst(layer_first, NameCompasWood, layer_name,
                                          name, l.index)
              /\ doc_objects' = r.objects
              /\ doc_groups' = r.groups
              /\ doc_exit' = [doc_exit EXCEPT !.call = "add_element", !.exit = r.exit]
    /\ doc_calls' = doc_calls + 1
    /\ UNCHANGED << object_kinds, valid_groups, layer_ret, globals_guid >>
    /\ UNCHANGED << gvars, evars, fvars >>

\* every call on the document
LayersNext ==
    \/ EnsureLayerExists
    \/ AddPolylines
    \/ AddSkeleton
    \/ AddElementToDocument

\* the calls of add_polylines and add_skeleton alone
ObjectsNext ==
    \/ AddPolylines
    \/ AddSkeleton

(***************************************************************************)
(* Specifications                                                          *)
(***************************************************************************)
\* select_group_tree on the objects of a document
GroupsStart == GroupInit /\ ElementIdle /\ DocumentIdle
SpecGroups == GroupsStart /\ [][GroupNext]_vars

\* the properties of one Element
ElementStart == ElementInit /\ GroupInit /\ DocumentIdle
SpecElement == ElementStart /\ [][ElementNext]_vars

\* the features of one Element
FeaturesStart == FeaturesInit /\ GroupInit /\ DocumentIdle
SpecFeatures == FeaturesStart /\ [][FeaturesNext]_vars

\* the fields of an entity add_element made, or of a bare shape
FieldsStart == FieldsInit /\ GroupInit /\ DocumentIdle
SpecFields == FieldsStart /\ [][FieldsNext]_vars

\* the list-valued fields of a shape whose user strings were edited
EditedStart == FieldsInit /\ GroupInit /\ DocumentIdle
SpecEdited == EditedStart /\ [][EditedNext]_vars

\* the calls on one document
LayersStart == ElementIdle /\ GroupInit /\ DocumentIdle
SpecLayers == LayersStart /\ [][LayersNext]_vars

\* add_polylines and add_skeleton on one document
ObjectsStart == ElementIdle /\ GroupInit /\ DocumentIdle
SpecObjects == ObjectsStart /\ [][ObjectsNext]_vars

\* the frame resolvers on one polyline
FramesStart == FramesInit /\ GroupInit /\ DocumentIdle
SpecFrames == FramesStart /\ [][FramesNext]_vars

(***************************************************************************)
(* Properties of the group functions                                       *)
(***************************************************************************)
Objs == 1..Len(object_tags)
Groups == DOMAIN group_dict
Members(g) == group_dict[g].objects
GroupsOf(o) == Range(object_group_map[o])
PathSep == << Backslash >>

\* the groups whose member set strictly contains that of g
StrictSupersets(g) ==
    { o \in Groups : Members(g) \subseteq Members(o) /\ Members(o) \ Members(g) # {} }

\* the prefix paths of one group name of an object
TagPrefixes(tag) ==
    LET ps == Parts(tag)
    IN  { Join(PathSep, SubSeq(ps, 1, k)) : k \in 1..Len(ps) }

\* the path one segment shorter, None for a single segment
ParentPath(g) ==
    LET segs == Split(g, Backslash)
    IN  IF Len(segs) > 1 THEN Join(PathSep, SubSeq(segs, 1, Len(segs) - 1))
        ELSE None

\* C1: the inferred parent of a group is none exactly when no group has a
\* strictly larger member set, and is otherwise a group with a strictly larger
\* member set such that no other such group has fewer extra members; a group
\* with an equal member set is never the parent.
C1_ParentIsClosestStrictSuperset ==
    gpc = "done" =>
        /\ DOMAIN inferred_parents = Groups
        /\ \A g \in Groups :
              LET p == inferred_parents[g]
              IN  IF StrictSupersets(g) = {} THEN p = None
                  ELSE /\ p \in StrictSupersets(g)
                       /\ \A o \in StrictSupersets(g) :
                             Cardinality(Members(o)) >= Cardinality(Members(p))

\* the example of C1: G1 = {1,2}, G2 = {1,2,3}, G3 = {1,2,3,4}
C1_Witness ==
    /\ gpc = "done"
    /\ \E g1, g2, g3 \in Groups :
          /\ Members(g1) = {1, 2} /\ Members(g2) = {1, 2, 3}
          /\ Members(g3) = {1, 2, 3, 4}
          /\ inferred_parents[g1] = g2 /\ inferred_parents[g2] = g3
          /\ inferred_parents[g3] = None

\* following the parent links from g ends at a group without parent in at
\* most n steps
RECURSIVE ChainEnds(_, _)
ChainEnds(g, n) ==
    IF inferred_parents[g] = None THEN TRUE
    ELSE IF n = 0 THEN FALSE
    ELSE ChainEnds(inferred_parents[g], n - 1)

\* C2: the inferred parent map has no cycle: from every group the parent
\* links reach a group without parent within as many steps as there are groups.
C2_NoCycle ==
    gpc = "done" => \A g \in Groups : ChainEnds(g, Cardinality(Groups))

\* several groups with identical member sets, and a chain of two links
C2_Witness ==
    /\ gpc = "done"
    /\ \E a, b \in Groups : a # b /\ Members(a) = Members(b)
    /\ \E g \in Groups :
          /\ inferred_parents[g] # None
          /\ inferred_parents[inferred_parents[g]] # None

\* how often x occurs in the sequence s
Occurrences(s, x) == Cardinality({ i \in 1..Len(s) : s[i] = x })

\* the places (p, i) where g is the i-th child of p in the tree
ChildPlaces(g) ==
    UNION { { << p, i >> : i \in { j \in 1..Len(tree[p].children) :
                                     tree[p].children[j] = g } } : p \in Groups }

RECURSIVE SumOver(_, _)
SumOver(S, f) ==
    IF S = {} THEN 0
    ELSE LET x == CHOOSE y \in S : TRUE IN f[x] + SumOver(S \ {x}, f)

\* C3: in the result of build_inferred_tree every group occurs exactly once
\* among roots and all children lists: in roots exactly when no group has a
\* strictly larger member set, otherwise in the children of its inferred
\* parent; no objects give empty roots and an empty tree.
C3_Forest ==
    gpc = "done" =>
        /\ DOMAIN tree = Groups
        /\ Range(roots) \subseteq Groups
        /\ \A g \in Groups :
              /\ Occurrences(roots, g) + Cardinality(ChildPlaces(g)) = 1
              /\ g \in Range(roots) <=> StrictSupersets(g) = {}
              /\ g \notin Range(roots) =>
                    g \in Range(tree[inferred_parents[g]].children)
        /\ object_tags = << >> => roots = << >> /\ DOMAIN tree = {}

\* a forest with two roots and a child
C3_Witness ==
    /\ gpc = "done"
    /\ Len(roots) >= 2
    /\ \E g \in Groups : tree[g].children # << >>

\* C4: an object is a member of the group of every prefix path of each of its
\* group names, and the members of a group with an explicit parent are
\* members of that parent.
C4_MembershipMonotone ==
    /\ \A o \in Objs : \A i \in 1..Len(object_tags[o]) :
          \A g \in TagPrefixes(object_tags[o][i]) :
              g \in Groups /\ o \in Members(g)
    /\ \A g \in Groups :
          group_dict[g].parent # None =>
              /\ group_dict[g].parent \in Groups
              /\ Members(g) \subseteq Members(group_dict[g].parent)

\* an object with the group name B\A is a member of B and of B\A, and B has
\* a member that B\A has not
C4_Witness ==
    \E o \in Objs :
        /\ TagBA \in Range(object_tags[o])
        /\ o \in Members(TagB) /\ o \in Members(TagBA)
        /\ Members(TagBA) # Members(TagB)

\* C5: every prefix path of a group name is a group node; a node of several
\* segments has the path without its last segment as parent and is among the
\* children of that parent, a node of one segment has no parent, and c is a
\* child of p exactly when p is the parent of c.
C5_ParentChildLinks ==
    /\ \A o \in Objs : \A i \in 1..Len(object_tags[o]) :
          TagPrefixes(object_tags[o][i]) \subseteq Groups
    /\ \A g \in Groups :
          LET pp == ParentPath(g)
          IN  /\ group_dict[g].parent = pp
              /\ pp # None => pp \in Groups /\ g \in group_dict[pp].children
    /\ \A c, p \in Groups :
          c \in group_dict[p].children <=> group_dict[c].parent = p

\* the three nodes of C\B\A are linked
C5_Witness ==
    /\ TagCBA \in Groups
    /\ group_dict[TagCBA].parent = TagCB
    /\ group_dict[TagCB].parent = TagC
    /\ group_dict[TagC].parent = None
    /\ TagCBA \in group_dict[TagCB].children

\* C6: an object without group names has exactly the group "Ungrouped", is a
\* member of it, and that group has no parent.
C6_Ungrouped ==
    \A o \in Objs :
        object_tags[o] = << >> =>
            /\ GroupsOf(o) = {Ungrouped}
            /\ Ungrouped \in Groups
            /\ o \in Members(Ungrouped)
            /\ group_dict[Ungrouped].parent = None

\* an object without group names beside one with a group name
C6_Witness ==
    /\ \E o \in Objs : object_tags[o] = << >> /\ o \in Members(Ungrouped)
    /\ \E o \in Objs : object_tags[o] # << >>

\* C7: two objects are listed under the same key of group_object_map exactly
\* when their sets of prefix group paths are equal, the key is the sorted,
\* comma-joined list of the paths, and every object is listed exactly once.
C7_SignatureIndex ==
    gpc # "loop" =>
        /\ \A o1, o2 \in Objs :
              (\E k \in DOMAIN group_object_map :
                  {o1, o2} \subseteq Range(group_object_map[k]))
              <=> GroupsOf(o1) = GroupsOf(o2)
        /\ \A o \in Objs :
              LET k == Join(<< "," >>, Sorted(GroupsOf(o)))
              IN  k \in DOMAIN group_object_map /\ o \in Range(group_object_map[k])
        /\ \A o \in Objs :
              SumOver(DOMAIN group_object_map,
                      [k \in DOMAIN group_object_map |->
                          Occurrences(group_object_map[k], o)]) = 1

\* the common members of two groups
Common(a, b) == Members(a) \cap Members(b)

\* C8: shared_dict has an entry for exactly the pairs (a, b) of groups with a
\* before b in name order that have a common member, and the entry is the set
\* of the common members.
C8_SharedElements ==
    gpc = "done" =>
        /\ DOMAIN shared_dict =
              { pr \in Groups \X Groups :
                  Common(pr[1], pr[2]) # {} /\ StrLess(pr[1], pr[2]) }
        /\ \A pr \in DOMAIN shared_dict : shared_dict[pr] = Common(pr[1], pr[2])

\* a pair with two common members, and a pair of groups without any
C8_Witness ==
    /\ gpc = "done"
    /\ \E pr \in DOMAIN shared_dict : Cardinality(shared_dict[pr]) >= 2
    /\ \E a, b \in Groups : a # b /\ Common(a, b) = {}


(***************************************************************************)
(* Properties of the element codec                                         *)
(***************************************************************************)
\* the coordinates of the polylines, as a Python list of flat lists of floats
WorldCoordinates(polylines) ==
    PyList([i \in 1..Len(polylines) |-> PyList(Coordinates(polylines[i]))])

\* C9: with a valid frame, reading axes after axes was set returns polylines
\* with the points that were set; with the world frame as the element's
\* frame, the coordinates stored in the user string are the world coordinates.
C9_AxesRoundTrip ==
    /\ (ret.op = "axes" /\ self_axes.set /\ ElementPlane(marker).valid) =>
          ret.ok /\ ret.val = self_axes.val
    /\ (self_axes.set /\ marker = MarkerWorld) =>
          literal_eval(user_strings[KeyAxes]) = Returned(WorldCoordinates(self_axes.val))

\* two polylines read back in a frame that is moved and turned
C9_Witness ==
    /\ ret.op = "axes" /\ ret.ok
    /\ marker = MarkerSkew
    /\ self_axes.set /\ Len(self_axes.val) = 2
    /\ ret.val = << << PointA, PointB >>, << PointC, PointB, PointA >> >>

\* C10: reading neighbours, radii or joint_types after a (nested) list of
\* ints and floats was set returns a value equal to the one set.
C10_ValueRoundTrip ==
    /\ (ret.op = "neighbours" /\ self_neighbours.set) =>
          ret.ok /\ ret.val = self_neighbours.val
    /\ (ret.op = "radii" /\ self_radii.set) =>
          ret.ok /\ ret.val = self_radii.val
    /\ (ret.op = "joint_types" /\ self_joint_types.set) =>
          ret.ok /\ ret.val = self_joint_types.val

\* a nested list of floats read back from radii, with an empty list set for
\* joint_types and a list of ints for neighbours
C10_Witness ==
    /\ ret.op = "radii" /\ ret.ok
    /\ self_radii.set
    /\ ret.val = PyList(<< PyList(<< PyFloat(1) >>), PyList(<< PyFloat(4), PyFloat(3) >>) >>)
    /\ self_joint_types.set /\ self_joint_types.val = PyList(<< >>)
    /\ self_neighbours.set /\ self_neighbours.val = PyList(<< PyInt(1), PyInt(-2), PyInt(10) >>)

(***************************************************************************)
(* Properties of the frame resolvers                                       *)
(***************************************************************************)
\* the frame of three points: origin the middle point, axes from the two legs
FrameOf(m) == PlaneFromFrame(m[2], VecSub(m[1], m[2]), VecSub(m[3], m[2]))

FrameResolvers == { "plane", "polyline_obj_to_plane", "polyline_to_plane" }

\* C11: every frame resolver (Element.plane, polyline_obj_to_plane,
\* polyline_to_plane) returns a frame exactly when the polyline has 3 points,
\* with origin marker[1] and axes from marker[0]-marker[1] and
\* marker[2]-marker[1]; for any other point count it returns Plane.Unset
\* without failing.
C11_FrameResolvers ==
    ret.op \in FrameResolvers =>
        /\ ret.ok
        /\ ret.val.valid <=> Len(marker) = 3
        /\ Len(marker) = 3 => ret.val = FrameOf(marker) /\ ret.val.origin = marker[2]
        /\ Len(marker) # 3 => ret.val = PlaneUnset

(***************************************************************************)
(* Properties of the features                                              *)
(***************************************************************************)
\* the keys of the user strings that hold "feature"
FeatureKeysOf(us) == { key \in DOMAIN us : ContainsFeature(key) }

\* the key with suffix i
FeatureName(i) == << "f", "e", "a", "t", "u", "r", "e", "_" >> \o IntStr(i)

\* C12: the feature keys of the user strings are exactly feature_0 ..
\* feature_{n-1} with n = features_count, each listed once and in the order
\* of their suffixes, and the features getter returns the n geometries in
\* that order, each as it was given to the setter.
C12_FeatureKeysContiguous ==
    LET n == features_count(feature_keys)
    IN  /\ FeatureKeysOf(user_strings) = { FeatureName(i) : i \in 0..(n - 1) }
        /\ feature_keys = [i \in 1..n |-> FeatureName(i - 1)]
        /\ ret.op = "features_count" => ret.val = PyInt(n)
        /\ ret.op = "features" =>
              /\ ret.ok /\ Len(ret.val) = n
              /\ \A i \in 1..n :
                    ret.val[i] =
                        TransformPolyline(marker, FromJSON(user_strings[FeatureName(i - 1)]))
              /\ (self_features.set /\ n > 0) =>
                    ret.val = [i \in 1..n |-> TransformPolyline(marker, self_features.val[i])]

\* three features read back in a frame that is moved and turned, after an
\* earlier set of other features and with the name still stored
C12_Witness ==
    /\ ret.op = "features" /\ ret.ok
    /\ marker = MarkerSkew
    /\ ret.val = << FeatureG2, FeatureG1, FeatureG3 >>
    /\ DOMAIN user_strings = { KeyName } \cup { FeatureName(i) : i \in 0..2 }

\* C13: the features setter called with an empty list leaves features_count
\* as it was, whatever the number of stored features.
C13_EmptySetKeepsCount ==
    [][(SetFeatures /\ self_features' = Attr(<< >>)) =>
          features_count(feature_keys') = features_count(feature_keys)]_vars

(***************************************************************************)
(* Properties of the fields written by add_element and by the setters      *)
(***************************************************************************)
\* the text of the empty list
EmptyListStr == << "[", "]" >>

\* the field was written by add_element and by no setter since
FromAdd(attr) == added.set /\ ~attr.set

\* C14: thickness 0.0, written by the thickness setter or given to
\* add_element, is stored as a number and not as "-", and reading thickness
\* then returns 0.0.
C14_ThicknessZero ==
    ((self_thickness.set /\ self_thickness.val = PyFloat(0))
        \/ (FromAdd(self_thickness) /\ added.val.thickness = PyFloat(0))) =>
        /\ user_strings[KeyThickness] # Dash
        /\ ret.op = "thickness" => ret.ok /\ ret.val = PyFloat(0)

\* C15: an empty neighbours or pair_polyline, written by add_element or by
\* its setter, is stored as "[]" and never as "-".
C15_EmptyListEncoding ==
    /\ (FromAdd(self_neighbours) /\ added.val.neighbours = PyList(<< >>)) =>
          user_strings[KeyNeighbours] = EmptyListStr
    /\ (FromAdd(self_volumes) /\ added.val.pair_polyline = << >>) =>
          user_strings[KeyPairPolyline] = EmptyListStr
    /\ (self_volumes.set /\ self_volumes.val = << >>) =>
          user_strings[KeyPairPolyline] = EmptyListStr
    /\ (self_neighbours.set /\ self_neighbours.val = PyList(<< >>)) =>
          user_strings[KeyNeighbours] = EmptyListStr

\* the user string is "-" or was never written
Absent(key) == GetUserString(user_strings, key) \in { Dash, None }

\* C16: reading neighbours, axes, radii, pair_polyline, insertion or
\* joint_types of an entity whose user string is "-" or was never written
\* returns an empty sequence and does not fail.
C16_AbsentReadsEmpty ==
    /\ (ret.op = "neighbours" /\ Absent(KeyNeighbours)) =>
          ret.ok /\ ret.val = PyList(<< >>)
    /\ (ret.op = "radii" /\ Absent(KeyRadii)) =>
          ret.ok /\ ret.val = PyList(<< >>)
    /\ (ret.op = "joint_types" /\ Absent(KeyJointTypes)) =>
          ret.ok /\ ret.val = PyList(<< >>)
    /\ (ret.op = "axes" /\ Absent(KeyAxes)) =>
          ret.ok /\ ret.val = << >>
    /\ (ret.op = "pair_polyline" /\ Absent(KeyPairPolyline)) =>
          ret.ok /\ ret.val = << >>
    /\ (ret.op = "insertion" /\ Absent(KeyInsertion)) =>
          ret.ok /\ ret.val = << >>

\* the number of pair_polyline entries is known: none when the user string
\* is "-" or was never written, else the number of pairs the getter returns
PairCountKnown ==
    Absent(KeyPairPolyline) \/ pair_polyline_get(user_strings, marker).ok

PairCount ==
    IF Absent(KeyPairPolyline) THEN 0
    ELSE Len(pair_polyline_get(user_strings, marker).val)

\* C17: with the insertion (or joint_types) user string "-" or never
\* written, the getter returns one empty sequence per pair_polyline entry,
\* also when pair_polyline is itself empty, "-" or never written.
C17_DefaultPerPair ==
    /\ (ret.op = "insertion" /\ Absent(KeyInsertion) /\ PairCountKnown) =>
          ret.ok /\ ret.val = [i \in 1..PairCount |-> << >>]
    /\ (ret.op = "joint_types" /\ Absent(KeyJointTypes) /\ PairCountKnown) =>
          ret.ok /\ ret.val = PyList([i \in 1..PairCount |-> PyList(<< >>)])

\* C18: the insertion setter accepts any list of lists of vectors, the
\* empty list too, and reading insertion afterwards returns the lists that
\* were set, vector by vector.
C18_InsertionRoundTrip ==
    /\ ret.op = "insertion=" => ret.ok
    /\ (ret.op = "insertion" /\ insertion_value.set) =>
          ret.ok /\ ret.val = insertion_value.val

\* the pairs of a list of 2k polylines: pair i holds polylines 2i and 2i+1
PairsOf(polylines) ==
    [i \in 1..(Len(polylines) \div 2) |-> << polylines[2 * i - 1], polylines[2 * i] >>]

\* C19: pair_polyline written from 2k polylines (k >= 1 for add_element), by
\* the setter or by add_element, is read back as the k pairs of these
\* polylines in order.
C19_PairRoundTrip ==
    /\ (ret.op = "pair_polyline" /\ self_volumes.set) =>
          ret.ok /\ ret.val = PairsOf(self_volumes.val)
    /\ (ret.op = "pair_polyline" /\ FromAdd(self_volumes)
            /\ Len(added.val.pair_polyline) > 0) =>
          ret.ok /\ ret.val = PairsOf(added.val.pair_polyline)

\* C20: an entity made by add_element with index i reads back index i, for
\* i = 0 too, and -1 when the index was left at its default.
C20_IndexReadBack ==
    (ret.op = "index" /\ added.set) => ret.ok /\ ret.val = added.val.index

\* the sum of f[i] over i in 1..n
RECURSIVE SumTo(_, _)
SumTo(f, n) == IF n = 0 THEN 0 ELSE f[n] + SumTo(f, n - 1)

\* the number of segments of a polyline: its point count minus 1
Segments(axis) == IF Len(axis) > 0 THEN Len(axis) - 1 ELSE 0

\* one list per axis and one value per segment, segment k counted across
\* all axes (from 0) holding radii[k mod len(radii)]
RadiiPerSegment(radii, axes) ==
    LET before == [i \in 1..Len(axes) |->
                      SumTo([n \in 1..Len(axes) |-> Segments(axes[n])], i - 1)]
    IN  [i \in 1..Len(axes) |->
            PyList([j \in 1..Segments(axes[i]) |->
                       radii[((before[i] + j - 1) % Len(radii)) + 1]])]

\* C21: add_element with non-empty radii and axes stores one list per axis
\* polyline with one value per axis segment, segment k across all axes
\* holding radii[k mod len(radii)]; fewer radii than segments is no error.
C21_RadiiRoundRobin ==
    (FromAdd(self_radii) /\ added.val.axes # << >> /\ added.val.radii # << >>) =>
        literal_eval(GetUserString(user_strings, KeyRadii)) =
            Returned(PyList(RadiiPerSegment(added.val.radii, added.val.axes)))

\* C28: add_element with a non-empty list of axis polylines stores one
\* flattened coordinate list per polyline, so that reading axes returns the
\* polylines supplied; the vertical default axis is stored only when no
\* axes were supplied.
C28_SuppliedAxesStored ==
    /\ (FromAdd(self_axes) /\ added.val.axes # << >>) =>
          /\ literal_eval(GetUserString(user_strings, KeyAxes)) =
                Returned(PyList(ListCoordinates(added.val.axes)))
          /\ ret.op = "axes" => ret.ok /\ ret.val = added.val.axes
    /\ (FromAdd(self_axes)
            /\ GetUserString(user_strings, KeyAxes) = AxesWritten(added.val.shape, << >>).str) =>
          added.val.axes = << >>

(***************************************************************************)
(* Ties of infer_group_hierarchy, and the agreement of the two outputs of  *)
(* build_universal_group_dict                                              *)
(***************************************************************************)
\* the strict supersets of g with the fewest extra members
ClosestSupersets(g) ==
    { h \in StrictSupersets(g) :
        \A o \in StrictSupersets(g) : Cardinality(Members(h)) <= Cardinality(Members(o)) }

\* the place of a group in the enumeration of the group dictionary
KeyPlace(g) == CHOOSE i \in 1..Len(group_keys) : group_keys[i] = g

\* C25: when several strict supersets tie for the fewest extra members, the
\* inferred parent is the first of them in the enumeration order of the
\* group dictionary; the parent map is this function of the dictionary.
C25_TieFirstInDictOrder ==
    gpc = "done" =>
        \A g \in Groups :
            ClosestSupersets(g) # {} =>
                /\ inferred_parents[g] \in ClosestSupersets(g)
                /\ \A h \in ClosestSupersets(g) :
                      KeyPlace(inferred_parents[g]) <= KeyPlace(h)

\* B\A = {1} under B = {1,2} and C = {1,3}: a tie, and B was entered first
C25_Witness ==
    /\ gpc = "done"
    /\ object_tags = << << TagBA, TagC >>, << TagA, TagB >>, << TagC >> >>
    /\ ClosestSupersets(TagBA) = { TagB, TagC }
    /\ KeyPlace(TagB) < KeyPlace(TagC)
    /\ inferred_parents[TagBA] = TagB

\* C26: an object is a member of a group exactly when the group is in the
\* object's set of group paths; every object has at least one group path
\* and every group has at least one member.
C26_OutputsAgree ==
    /\ \A o \in Objs : \A g \in Groups : o \in Members(g) <=> g \in GroupsOf(o)
    /\ \A o \in Objs : GroupsOf(o) # {} /\ GroupsOf(o) \subseteq Groups
    /\ \A g \in Groups : Members(g) # {} /\ Members(g) \subseteq Objs

\* an object in three groups, a group of two objects and an ungrouped object
C26_Witness ==
    /\ gpc = "built"
    /\ \E o \in Objs : Cardinality(GroupsOf(o)) = 3
    /\ \E g \in Groups : Cardinality(Members(g)) = 2
    /\ \E o \in Objs : GroupsOf(o) = { Ungrouped }

(***************************************************************************)
(* Properties of select_and_find_valid_groups                              *)
(***************************************************************************)
\* the pairs (other, polyline) of the groups with exactly two members, one a
\* polyline curve of three points and the other no polyline curve
PairsOfValidGroups ==
    { pair \in Objs \X Objs :
        /\ object_kinds[pair[2]] = "polyline3"
        /\ object_kinds[pair[1]] = "other"
        /\ \E g \in Groups : Members(g) = { pair[1], pair[2] } }

\* C23: select_and_find_valid_groups returns the pair of every group with
\* exactly two selected objects, one a polyline of three points and the
\* other no polyline, and nothing for the other groups; two objects sharing
\* such a group are found together.
C23_PairPerValidGroup ==
    (gpc = "found" /\ valid_groups.ret = "list") =>
        Range(valid_groups.pairs) = PairsOfValidGroups

(***************************************************************************)
(* Properties of the features setter on the geometries it is given         *)
(***************************************************************************)
\* the stored features are the blobs of the geometries last assigned
StoredFromAssigned ==
    /\ self_features.set
    /\ features_count(feature_keys) = Len(self_features.val)
    /\ \A i \in 1..Len(self_features.val) :
          GetUserString(user_strings, FeatureName(i - 1)) = ToJSON(self_features.val[i])

\* C29: the features setter leaves the geometries of the caller as they
\* were, so that assigning the same list again, whatever the frame of the
\* entity, stores the same feature blobs as the first time.
C29_ReassignStoresSameBlobs ==
    [][(SetFeaturesSame /\ StoredFromAssigned) =>
          /\ self_features'.val = self_features.val
          /\ user_strings' = user_strings]_vars

(***************************************************************************)
(* Properties of the getters on user strings that hold no list             *)
(***************************************************************************)
\* the user string is there, is not "-", and is not the literal of a list
NotListLiteral(key) ==
    LET value == GetUserString(user_strings, key)
    IN  /\ value \notin { None, Dash }
        /\ ~(literal_eval(value).ok /\ IsList(literal_eval(value).val))

\* the last read failed and gave nothing
ReadFailed == ~ret.ok /\ ret.err # "none" /\ ret.val = << >>

\* C22: reading neighbours, axes, radii, pair_polyline, insertion or
\* joint_types from a user string that is not the literal of a (nested) list
\* fails with an error and returns nothing.
C22_MalformedReadFails ==
    /\ (ret.op = "neighbours" /\ NotListLiteral(KeyNeighbours)) => ReadFailed
    /\ (ret.op = "axes" /\ NotListLiteral(KeyAxes)) => ReadFailed
    /\ (ret.op = "radii" /\ NotListLiteral(KeyRadii)) => ReadFailed
    /\ (ret.op = "pair_polyline" /\ NotListLiteral(KeyPairPolyline)) => ReadFailed
    /\ (ret.op = "insertion" /\ NotListLiteral(KeyInsertion)) => ReadFailed
    /\ (ret.op = "joint_types" /\ NotListLiteral(KeyJointTypes)) => ReadFailed

(***************************************************************************)
(* Properties of the document                                              *)
(***************************************************************************)
\* the indices of the layers named type_name under a layer named data_name
\* under a top layer named plugin_name
TypeLayers(table, plugin_name, data_name, type_name) ==
    { k \in 0..(Len(table) - 1) :
        /\ table[k + 1].name = type_name
        /\ table[k + 1].parent >= 0
        /\ LET j == table[k + 1].parent
           IN  /\ table[j + 1].name = data_name
               /\ table[j + 1].parent >= 0
               /\ table[table[j + 1].parent + 1].name = plugin_name
               /\ table[table[j + 1].parent + 1].parent < 0 }

\* C24: after ensure_layer_exists(plugin, data, type) the three nested
\* layers exist and the index returned is that of the type layer; a call
\* for layers that exist already adds no layer and returns the index that
\* was returned the first time, whatever calls came before.
C24_LayersEnsuredOnce ==
    layer_ret.set =>
        LET r == layer_ret.val
        IN  /\ TypeLayers(layers, r.plugin, r.data, r.type) = { r.index }
            /\ layer_first[<< r.plugin, r.data, r.type >>] = r.index
            /\ TypeLayers(r.before, r.plugin, r.data, r.type) # {} =>
                  /\ r.index \in TypeLayers(r.before, r.plugin, r.data, r.type)
                  /\ \A i \in 1..Len(r.before) : layers[i] = r.before[i]
                  /\ doc_exit.call = "ensure_layer_exists" => layers = r.before

\* a second call for w::d2::d1, made when seven layers existed, adds none
\* and returns the index of the first call
C24_Witness ==
    /\ layer_ret.set
    /\ doc_exit.call = "ensure_layer_exists"
    /\ doc_calls = 3
    /\ layer_ret.val.plugin = NameW /\ layer_ret.val.data = NameD2
    /\ layer_ret.val.type = NameD1
    /\ layer_ret.val.before = layers
    /\ Len(layers) = 7
    /\ layer_ret.val.index = 3
    /\ layer_first[<< NameW, NameD2, NameD1 >>] = 3

\* the objects the last call added
AddedByLastCall == { i \in 1..Len(doc_objects) : doc_objects[i].call = doc_calls }

\* C27: add_element is all or nothing on the document: on every exit either
\* the shape and its marker were both added and share one new group of
\* exactly these two, or nothing was added.
C27_AddElementAllOrNothing ==
    doc_exit.call = "add_element" =>
        \/ AddedByLastCall = {}
        \/ /\ Cardinality(AddedByLastCall) = 2
           /\ \E s, f \in AddedByLastCall :
                 /\ doc_objects[s].kind = "shape"
                 /\ doc_objects[f].kind = "group frame"
                 /\ doc_groups # << >>
                 /\ doc_groups[Len(doc_groups)] = { s, f }
                 /\ \A g \in 1..(Len(doc_groups) - 1) : doc_groups[g] \cap { s, f } = {}

\* the objects of a dataset that exist, and those added for it by a call
Existing(data_name) ==
    { i \in 1..Len(doc_objects) :
        doc_objects[i].data = data_name /\ ~doc_objects[i].deleted }

AddedBy(data_name, call) ==
    { i \in 1..Len(doc_objects) :
        doc_objects[i].data = data_name /\ doc_objects[i].call = call }

\* C30: after any calls of add_polylines and add_skeleton for a dataset,
\* the objects of the dataset that exist are those of the latest call, and
\* wood_rui_globals[data_name]["polylines_guid"] lists exactly their ids.
C30_OnlyLatestObjectsRemain ==
    \A d \in DataNames :
        doc_exit.latest[d] > 0 =>
            /\ Existing(d) = AddedBy(d, doc_exit.latest[d])
            /\ globals_guid[d].set
            /\ Range(globals_guid[d].val) = AddedBy(d, doc_exit.latest[d])

=============================================================================
